---------------------------- MODULE Spec2Model ----------------------------
(***************************************************************************)
(* A model of read_table_cpp.h: the line_parser cursor (pre-check,         *)
(* post-check, typed converters, string and skip reads, the variadic       *)
(* read) and read_table2::read_line over a std::istream.                   *)
(*                                                                         *)
(* Text is a TLA+ string; a character is a string of length one.  All     *)
(* offsets (pos, end pointers) are 0-based as in the C++ code.  Integers   *)
(* of the program are wider than the model checker's, so a program         *)
(* integer is a record [neg, mag] whose magnitude is a little-endian       *)
(* sequence of limbs; a double is a decimal floating point record or one   *)
(* of the special values.                                                  *)
(***************************************************************************)
EXTENDS Integers, Sequences, FiniteSets, TLC

(***************************************************************************)
(* Characters                                                              *)
(***************************************************************************)

\* char 0: "no delimiter" / "no comment character", and the terminator of c_str()
NUL == "NUL"

\* buf[i] / buf.c_str()[i] for 0 <= i <= buf.size(): the terminator at i = size
At(buf, i) == IF i < Len(buf) THEN SubSeq(buf, i + 1, i + 1) ELSE NUL

\* the test (buf[pos] == ' ' || buf[pos] == '\t') of the scanning loops
IsBlank(c) == c = " " \/ c = "\t"

\* isspace() of <ctype.h> in the "C" locale (strtol and strtod skip these)
IsSpace(c) == c \in {" ", "\t", "\n", "\r"}

AlnumChars == "0123456789abcdefghijklmnopqrstuvwxyz"

UpperChars == "ABCDEFGHIJKLMNOPQRSTUVWXYZ"

\* value of c as a digit (letters count from 10, as strtol takes them); 36: no digit
DigitVal(c) ==
  IF \E i \in 1..36 : SubSeq(AlnumChars, i, i) = c
  THEN (CHOOSE i \in 1..36 : SubSeq(AlnumChars, i, i) = c) - 1
  ELSE IF \E i \in 1..26 : SubSeq(UpperChars, i, i) = c
       THEN (CHOOSE i \in 1..26 : SubSeq(UpperChars, i, i) = c) + 9
       ELSE 36

\* isalnum() of <ctype.h>
IsAlnum(c) == DigitVal(c) < 36

(***************************************************************************)
(* Program integers: long, long long, intN_t, uintN_t                      *)
(***************************************************************************)

Limb == 1000 * 1000

\* m * b + c on magnitudes (b, c small)
RECURSIVE MulAdd(_, _, _)
MulAdd(m, b, c) ==
  IF m = <<>> THEN (IF c = 0 THEN <<>> ELSE <<c>>)
  ELSE LET t == Head(m) * b + c
       IN  <<t % Limb>> \o MulAdd(Tail(m), b, t \div Limb)

\* -1, 0, 1 as a < b, a = b, a > b for magnitudes
RECURSIVE CmpMag(_, _)
CmpMag(a, b) ==
  IF Len(a) # Len(b) THEN (IF Len(a) < Len(b) THEN -1 ELSE 1)
  ELSE IF a = <<>> THEN 0
  ELSE LET x == a[Len(a)]
           y == b[Len(b)]
       IN  IF x # y THEN (IF x < y THEN -1 ELSE 1)
           ELSE CmpMag(SubSeq(a, 1, Len(a) - 1), SubSeq(b, 1, Len(b) - 1))

\* the magnitude written in decimal as the string s
RECURSIVE DecMag(_, _)
DecMag(s, acc) ==
  IF s = "" THEN acc
  ELSE DecMag(Tail(s), MulAdd(acc, 10, DigitVal(SubSeq(s, 1, 1))))

Pos(s) == [neg |-> FALSE, mag |-> DecMag(s, <<>>)]

Neg(s) == [neg |-> TRUE, mag |-> DecMag(s, <<>>)]

Zero == [neg |-> FALSE, mag |-> <<>>]

\* a < b on program integers
NumLt(a, b) ==
  IF a.neg # b.neg THEN a.neg
  ELSE IF a.neg THEN CmpMag(a.mag, b.mag) = 1
       ELSE CmpMag(a.mag, b.mag) = -1

NumLeq(a, b) == ~NumLt(b, a)

\* limits of <stdint.h> / <limits.h>
INT16_MIN == Neg("32768")

INT16_MAX == Pos("32767")

UINT16_MAX == Pos("65535")

INT32_MIN == Neg("2147483648")

INT32_MAX == Pos("2147483647")

UINT32_MAX == Pos("4294967295")

INT64_MIN == Neg("9223372036854775808")

INT64_MAX == Pos("9223372036854775807")

UINT64_MAX == Pos("18446744073709551615")

\* LONG_MIN, LONG_MAX, ULONG_MAX of a build whose long has `bits` bits
LONG_MIN(bits) == IF bits = 32 THEN INT32_MIN ELSE INT64_MIN

LONG_MAX(bits) == IF bits = 32 THEN INT32_MAX ELSE INT64_MAX

ULONG_MAX(bits) == IF bits = 32 THEN UINT32_MAX ELSE UINT64_MAX

\* a - b on magnitudes, limb by limb (a >= b), before leading zero limbs are cut
RECURSIVE SubLimbs(_, _, _)
SubLimbs(a, b, borrow) ==
  IF a = <<>> THEN <<>>
  ELSE LET y == (IF b = <<>> THEN 0 ELSE Head(b)) + borrow
           d == Head(a) - y
           rest == IF b = <<>> THEN <<>> ELSE Tail(b)
       IN  IF d < 0 THEN <<d + Limb>> \o SubLimbs(Tail(a), rest, 1)
           ELSE <<d>> \o SubLimbs(Tail(a), rest, 0)

RECURSIVE StripLimbs(_)
StripLimbs(m) ==
  IF m # <<>> /\ m[Len(m)] = 0 THEN StripLimbs(SubSeq(m, 1, Len(m) - 1)) ELSE m

\* the unsigned negation strtoul applies to "-digits": 2^bits - mag (mag > 0)
NegateUnsigned(mag, bits) ==
  MulAdd(StripLimbs(SubLimbs(ULONG_MAX(bits).mag, mag, 0)), 1, 1)

(***************************************************************************)
(* strtol, strtoll, strtoul, strtoull of <stdlib.h>                        *)
(* The result is [end, errno, val]: end is the 0-based offset the end      *)
(* pointer c2 is set to, errno is "0", "ERANGE" or "EINVAL" (the caller    *)
(* clears errno before each call).                                         *)
(***************************************************************************)

RECURSIVE SkipSpaces(_, _)
SkipSpaces(buf, i) == IF IsSpace(At(buf, i)) THEN SkipSpaces(buf, i + 1) ELSE i

RECURSIVE DigitsEnd(_, _, _)
DigitsEnd(buf, i, b) ==
  IF DigitVal(At(buf, i)) < b THEN DigitsEnd(buf, i + 1, b) ELSE i

RECURSIVE AccMag(_, _, _, _, _)
AccMag(buf, i, e, b, acc) ==
  IF i >= e THEN acc
  ELSE AccMag(buf, i + 1, e, b, MulAdd(acc, b, DigitVal(At(buf, i))))

\* the sign, where the digits start, where they end, and their magnitude:
\* white space, an optional sign, an optional 0x / 0X when the base is 16 or 0
\* and a hexadecimal digit follows, then the digits of the base (base 0: 16
\* after the prefix, 8 after a leading 0, 10 otherwise)
ScanInteger(buf, start, base) ==
  LET Digits(neg, j2, e, b) ==
        [neg |-> neg, first |-> j2, end |-> e, mag |-> AccMag(buf, j2, e, b, <<>>)]
      InBase(neg, j2, b) == Digits(neg, j2, DigitsEnd(buf, j2, b), b)
      Prefixed(neg, j1) ==
        IF (base = 16 \/ base = 0) /\ At(buf, j1) = "0"
           /\ At(buf, j1 + 1) \in {"x", "X"} /\ DigitVal(At(buf, j1 + 2)) < 16
        THEN InBase(neg, j1 + 2, 16)
        ELSE InBase(neg, j1, IF base # 0 THEN base
                             ELSE IF At(buf, j1) = "0" THEN 8 ELSE 10)
      Signed(j0) ==
        Prefixed(At(buf, j0) = "-", IF At(buf, j0) \in {"-", "+"} THEN j0 + 1 ELSE j0)
  IN  Signed(SkipSpaces(buf, start))

ValidBase(base) == base = 0 \/ (2 <= base /\ base <= 36)

StrToL(buf, start, base, bits) ==
  LET Clamp(sc, limit) ==
        IF ~ValidBase(base) THEN [end |-> start, errno |-> "EINVAL", val |-> Zero]
        ELSE IF sc.end = sc.first THEN [end |-> start, errno |-> "0", val |-> Zero]
        ELSE IF CmpMag(sc.mag, limit.mag) = 1
             THEN [end |-> sc.end, errno |-> "ERANGE", val |-> limit]
        ELSE [end |-> sc.end, errno |-> "0",
              val |-> [neg |-> sc.neg /\ sc.mag # <<>>, mag |-> sc.mag]]
      Convert(sc) == Clamp(sc, IF sc.neg THEN LONG_MIN(bits) ELSE LONG_MAX(bits))
  IN  Convert(ScanInteger(buf, start, base))

StrToUL(buf, start, base, bits) ==
  LET Convert(sc) ==
        IF ~ValidBase(base) THEN [end |-> start, errno |-> "EINVAL", val |-> Zero]
        ELSE IF sc.end = sc.first THEN [end |-> start, errno |-> "0", val |-> Zero]
        ELSE IF CmpMag(sc.mag, ULONG_MAX(bits).mag) = 1
             THEN [end |-> sc.end, errno |-> "ERANGE", val |-> ULONG_MAX(bits)]
        ELSE [end |-> sc.end, errno |-> "0",
              val |-> [neg |-> FALSE,
                       mag |-> IF sc.neg /\ sc.mag # <<>>
                               THEN NegateUnsigned(sc.mag, bits) ELSE sc.mag]]
  IN  Convert(ScanInteger(buf, start, base))

(***************************************************************************)
(* strtod of <stdlib.h>                                                    *)
(* A double is [k, neg, exp, digs]: k = "fin" is the value 0.digs * 10^exp *)
(* (digs without leading or trailing zeros; zero is digs = ""), k = "inf"  *)
(* and k = "nan" are the special values.  Decimal strings are kept exact:  *)
(* the rounding of strtod to 53 bits is not modelled, nor the hexadecimal  *)
(* form (no text of the model holds an 'x').                               *)
(***************************************************************************)

Fin(neg, exp, digs) == [k |-> "fin", neg |-> neg, exp |-> exp, digs |-> digs]

Inf(neg) == [k |-> "inf", neg |-> neg, exp |-> 0, digs |-> ""]

NaN == [k |-> "nan", neg |-> FALSE, exp |-> 0, digs |-> ""]

\* tolower() of <ctype.h>
Lower(c) ==
  IF \E i \in 1..26 : SubSeq(UpperChars, i, i) = c
  THEN LET i == CHOOSE i \in 1..26 : SubSeq(UpperChars, i, i) = c
       IN  SubSeq(AlnumChars, i + 10, i + 10)
  ELSE c

\* buf continues at offset i with word (lower case), whatever the case
RECURSIVE MatchWord(_, _, _)
MatchWord(buf, i, word) ==
  word = "" \/ (Lower(At(buf, i)) = SubSeq(word, 1, 1) /\ MatchWord(buf, i + 1, Tail(word)))

RECURSIVE StripLeadingZeros(_)
StripLeadingZeros(d) ==
  IF d # "" /\ SubSeq(d, 1, 1) = "0" THEN StripLeadingZeros(Tail(d)) ELSE d

RECURSIVE StripTrailingZeros(_)
StripTrailingZeros(d) ==
  IF d # "" /\ SubSeq(d, Len(d), Len(d)) = "0"
  THEN StripTrailingZeros(SubSeq(d, 1, Len(d) - 1)) ELSE d

\* -1, 0, 1 for the digit strings read as fractions 0.a and 0.b
RECURSIVE CmpDigs(_, _)
CmpDigs(a, b) ==
  IF a = "" /\ b = "" THEN 0
  ELSE LET x == IF a = "" THEN 0 ELSE DigitVal(SubSeq(a, 1, 1))
           y == IF b = "" THEN 0 ELSE DigitVal(SubSeq(b, 1, 1))
       IN  IF x # y THEN (IF x < y THEN -1 ELSE 1)
           ELSE CmpDigs(IF a = "" THEN "" ELSE Tail(a), IF b = "" THEN "" ELSE Tail(b))

\* the decimal exponent in buf[i..e), saturated (any such exponent is out of range)
RECURSIVE ExpVal(_, _, _, _)
ExpVal(buf, i, e, acc) ==
  IF i >= e THEN acc
  ELSE ExpVal(buf, i + 1, e, IF acc > 99999 THEN acc ELSE acc * 10 + DigitVal(At(buf, i)))

\* magnitude above DBL_MAX (1.7976931348623157e308)
DblOverflows(exp, digs) ==
  digs # "" /\ (exp > 309 \/ (exp = 309 /\ CmpDigs(digs, "17976931348623158") >= 0))

\* magnitude below DBL_MIN (2.2250738585072014e-308)
DblUnderflows(exp, digs) ==
  digs # "" /\ (exp < -307 \/ (exp = -307 /\ CmpDigs(digs, "22250738585072014") < 0))

\* white space, an optional sign, then "infinity", "inf" or "nan" in any case,
\* or digits with an optional point and an optional exponent (which counts
\* only when a digit follows the "e" and its optional sign)
StrToD(buf, start) ==
  LET Value(neg, end, exp, digs) ==
        IF DblOverflows(exp, digs)
        THEN [end |-> end, errno |-> "ERANGE", val |-> Inf(neg)]
        ELSE [end |-> end, errno |-> IF DblUnderflows(exp, digs) THEN "ERANGE" ELSE "0",
              val |-> Fin(neg, exp, digs)]
      \* int: the number of digits before the point; all: the digits of the
      \* mantissa; lead: all without its leading zeros; ev: the exponent written
      Scaled(neg, end, int, ev, all, lead, digs) ==
        Value(neg, end, IF digs = "" THEN 0 ELSE int - (Len(all) - Len(lead)) + ev, digs)
      Normal(neg, end, int, ev, all, lead) ==
        Scaled(neg, end, int, ev, all, lead, StripTrailingZeros(lead))
      Mantissa(neg, end, int, ev, all) ==
        IF all = "" THEN [end |-> start, errno |-> "0", val |-> Fin(FALSE, 0, "")]
        ELSE Normal(neg, end, int, ev, all, StripLeadingZeros(all))
      Exponent(neg, j1, d1end, d2end, e1, e2, all) ==
        IF Lower(At(buf, d2end)) = "e" /\ e2 > e1
        THEN Mantissa(neg, e2, d1end - j1,
                      IF At(buf, d2end + 1) = "-" THEN 0 - ExpVal(buf, e1, e2, 0)
                      ELSE ExpVal(buf, e1, e2, 0), all)
        ELSE Mantissa(neg, d2end, d1end - j1, 0, all)
      ExpDigits(neg, j1, d1end, d2end, e1) ==
        Exponent(neg, j1, d1end, d2end, e1, DigitsEnd(buf, e1, 10),
                 SubSeq(buf, j1 + 1, d1end)
                 \o (IF d2end > d1end THEN SubSeq(buf, d1end + 2, d2end) ELSE ""))
      Fraction(neg, j1, d1end, d2end) ==
        ExpDigits(neg, j1, d1end, d2end,
                  IF At(buf, d2end + 1) \in {"-", "+"} THEN d2end + 2 ELSE d2end + 1)
      Integer(neg, j1, d1end) ==
        Fraction(neg, j1, d1end,
                 IF At(buf, d1end) = "." THEN DigitsEnd(buf, d1end + 1, 10) ELSE d1end)
      Number(neg, j1) ==
        IF MatchWord(buf, j1, "infinity")
        THEN [end |-> j1 + 8, errno |-> "0", val |-> Inf(neg)]
        ELSE IF MatchWord(buf, j1, "inf")
        THEN [end |-> j1 + 3, errno |-> "0", val |-> Inf(neg)]
        ELSE IF MatchWord(buf, j1, "nan")
        THEN [end |-> j1 + 3, errno |-> "0", val |-> NaN]
        ELSE Integer(neg, j1, DigitsEnd(buf, j1, 10))
      Signed(j0) ==
        Number(At(buf, j0) = "-", IF At(buf, j0) \in {"-", "+"} THEN j0 + 1 ELSE j0)
  IN  Signed(SkipSpaces(buf, start))

\* a < b on doubles (false when either is NaN)
DblLt(a, b) ==
  LET \* a, b finite or infinite: -1, 0, 1 for |a| against |b|
      cmpAbs ==
        IF a.k = "inf" \/ b.k = "inf"
        THEN (IF a.k = b.k THEN 0 ELSE IF b.k = "inf" THEN -1 ELSE 1)
        ELSE IF a.digs = "" \/ b.digs = ""
        THEN (IF a.digs = b.digs THEN 0 ELSE IF a.digs = "" THEN -1 ELSE 1)
        ELSE IF a.exp # b.exp THEN (IF a.exp < b.exp THEN -1 ELSE 1)
        ELSE CmpDigs(a.digs, b.digs)
      zeroA == a.k = "fin" /\ a.digs = ""
      zeroB == b.k = "fin" /\ b.digs = ""
      negA == a.neg /\ ~zeroA
      negB == b.neg /\ ~zeroB
  IN  IF a.k = "nan" \/ b.k = "nan" THEN FALSE
      ELSE IF negA # negB THEN negA
      ELSE IF negA THEN cmpAbs = 1
      ELSE cmpAbs = -1

\* a <= b on doubles (false when either is NaN)
DblLeq(a, b) == a.k # "nan" /\ b.k # "nan" /\ ~DblLt(b, a)

\* std::isnan, std::isinf
IsNan(d) == d.k = "nan"

IsInf(d) == d.k = "inf"

(***************************************************************************)
(* line_parser                                                             *)
(* A parser is the record of the fields of struct line_parser:             *)
(* [buf, pos, col, base, last_error, delim, comment, allow_nan_inf].       *)
(* A read operator takes the parser before the call and yields             *)
(*   [p, ret, out, ub]: the parser after the call, the value returned, the *)
(* values assigned to the caller's output (<<>>: not assigned, in          *)
(* assignment order otherwise) and whether the call left defined           *)
(* behaviour (an access of buf beyond its terminator, an exception).       *)
(***************************************************************************)

\* struct line_parser_params and its defaults
line_parser_params == [base |-> 10, delim |-> NUL, comment |-> NUL, allow_nan_inf |-> TRUE]

\* line_parser(par): an empty buffer, the members' default initialisers
line_parser_init(par) ==
  [buf |-> "", pos |-> 0, col |-> 0, base |-> par.base, last_error |-> "T_OK",
   delim |-> par.delim, comment |-> par.comment, allow_nan_inf |-> par.allow_nan_inf]

Result(p, ret, out) == [p |-> p, ret |-> ret, out |-> out, ub |-> FALSE]

Undefined(p) == [p |-> p, ret |-> FALSE, out |-> <<>>, ub |-> TRUE]

\* for(;pos < len; pos++) if( ! (buf[pos] == ' ' || buf[pos] == '\t') ) break;
RECURSIVE SkipBlanks(_, _)
SkipBlanks(buf, i) ==
  IF i < Len(buf) /\ IsBlank(At(buf, i)) THEN SkipBlanks(buf, i + 1) ELSE i

\* pos == len || buf[pos] == '\n' || (comment && buf[pos] == comment)
AtLineEnd(p, i) ==
  i = Len(p.buf) \/ At(p.buf, i) = "\n" \/ (p.comment # NUL /\ At(p.buf, i) = p.comment)

\* the errors that block a read, T_EOL not among them
PreCheckBlocked_NoEol(e) == e \in {"T_EOF", "T_COPIED", "T_READ_ERROR", "T_ERROR_FOPEN"}

\* the errors on which read_table_pre_check returns at once
PreCheckBlocked(e) == e \in {"T_EOF", "T_EOL", "T_COPIED", "T_READ_ERROR", "T_ERROR_FOPEN"}

\* read_table_pre_check without the test for an empty field
read_table_pre_check_NoMissing(p, advance_pos) ==
  LET np == SkipBlanks(p.buf, p.pos)
  IN  IF PreCheckBlocked(p.last_error) THEN Result(p, FALSE, <<>>)
      ELSE IF np > Len(p.buf) THEN Undefined(p)
      ELSE IF AtLineEnd(p, np)
      THEN Result([p EXCEPT !.last_error = "T_EOL",
                            !.pos = IF advance_pos THEN np ELSE p.pos], FALSE, <<>>)
      ELSE Result([p EXCEPT !.pos = np], TRUE, <<>>)

\* read_table_pre_check going back to the start of the line when it finds
\* the end of the line
read_table_pre_check_Rewind(p, advance_pos) ==
  LET np == SkipBlanks(p.buf, p.pos)
  IN  IF PreCheckBlocked(p.last_error) THEN Result(p, FALSE, <<>>)
      ELSE IF np > Len(p.buf) THEN Undefined(p)
      ELSE IF AtLineEnd(p, np)
      THEN Result([p EXCEPT !.last_error = "T_EOL",
                            !.pos = IF advance_pos THEN 0 ELSE p.pos], FALSE, <<>>)
      ELSE IF p.delim # NUL /\ At(p.buf, np) = p.delim
      THEN Result([p EXCEPT !.last_error = "T_MISSING",
                            !.pos = IF advance_pos THEN np ELSE p.pos], FALSE, <<>>)
      ELSE Result([p EXCEPT !.pos = np], TRUE, <<>>)

read_table_pre_check(p, advance_pos) ==
  LET np == SkipBlanks(p.buf, p.pos)
  IN  IF PreCheckBlocked(p.last_error) THEN Result(p, FALSE, <<>>)
      ELSE IF np > Len(p.buf) THEN Undefined(p)
      ELSE IF AtLineEnd(p, np)
      THEN Result([p EXCEPT !.last_error = "T_EOL",
                            !.pos = IF advance_pos THEN np ELSE p.pos], FALSE, <<>>)
      ELSE IF p.delim # NUL /\ At(p.buf, np) = p.delim
      THEN Result([p EXCEPT !.last_error = "T_MISSING",
                            !.pos = IF advance_pos THEN np ELSE p.pos], FALSE, <<>>)
      ELSE Result([p EXCEPT !.pos = np], TRUE, <<>>)

\* read_table_post_check without the blank required in whitespace mode
read_table_post_check_NoBlank(p, conv) ==
  LET np == SkipBlanks(p.buf, conv.end)
  IN  IF conv.errno = "EINVAL" \/ conv.end = p.pos
      THEN Result([p EXCEPT !.last_error = "T_FORMAT"], FALSE, <<>>)
      ELSE IF conv.errno = "ERANGE"
      THEN Result([p EXCEPT !.last_error = "T_OVERFLOW"], FALSE, <<>>)
      ELSE IF AtLineEnd(p, np)
      THEN Result([p EXCEPT !.pos = np, !.last_error = "T_OK"], TRUE, <<>>)
      ELSE IF p.delim # NUL /\ At(p.buf, np) # p.delim
      THEN Result([p EXCEPT !.pos = np, !.last_error = "T_FORMAT"], FALSE, <<>>)
      ELSE Result([p EXCEPT !.pos = IF p.delim # NUL THEN np + 1 ELSE np,
                            !.col = p.col + 1, !.last_error = "T_OK"], TRUE, <<>>)

\* read_table_post_check looking at what follows the number before it looks
\* at the overflow of the conversion
read_table_post_check_RangeLast(p, conv) ==
  LET np == SkipBlanks(p.buf, conv.end)
      have_blank == np > conv.end
  IN  IF conv.errno = "EINVAL" \/ conv.end = p.pos
      THEN Result([p EXCEPT !.last_error = "T_FORMAT"], FALSE, <<>>)
      ELSE IF ~AtLineEnd(p, np) /\ p.delim = NUL /\ ~have_blank
      THEN Result([p EXCEPT !.pos = np, !.last_error = "T_FORMAT"], FALSE, <<>>)
      ELSE IF ~AtLineEnd(p, np) /\ p.delim # NUL /\ At(p.buf, np) # p.delim
      THEN Result([p EXCEPT !.pos = np, !.last_error = "T_FORMAT"], FALSE, <<>>)
      ELSE IF conv.errno = "ERANGE"
      THEN Result([p EXCEPT !.last_error = "T_OVERFLOW"], FALSE, <<>>)
      ELSE IF AtLineEnd(p, np)
      THEN Result([p EXCEPT !.pos = np, !.last_error = "T_OK"], TRUE, <<>>)
      ELSE Result([p EXCEPT !.pos = IF p.delim # NUL THEN np + 1 ELSE np,
                            !.col = p.col + 1, !.last_error = "T_OK"], TRUE, <<>>)

\* c2 is conv.end, errno is conv.errno
read_table_post_check(p, conv) ==
  LET np == SkipBlanks(p.buf, conv.end)
      have_blank == np > conv.end
  IN  IF conv.errno = "EINVAL" \/ conv.end = p.pos
      THEN Result([p EXCEPT !.last_error = "T_FORMAT"], FALSE, <<>>)
      ELSE IF conv.errno = "ERANGE"
      THEN Result([p EXCEPT !.last_error = "T_OVERFLOW"], FALSE, <<>>)
      ELSE IF AtLineEnd(p, np)
      THEN Result([p EXCEPT !.pos = np, !.last_error = "T_OK"], TRUE, <<>>)
      ELSE IF p.delim = NUL /\ ~have_blank
      THEN Result([p EXCEPT !.pos = np, !.last_error = "T_FORMAT"], FALSE, <<>>)
      ELSE IF p.delim # NUL /\ At(p.buf, np) # p.delim
      THEN Result([p EXCEPT !.pos = np, !.last_error = "T_FORMAT"], FALSE, <<>>)
      ELSE Result([p EXCEPT !.pos = IF p.delim # NUL THEN np + 1 ELSE np,
                            !.col = p.col + 1, !.last_error = "T_OK"], TRUE, <<>>)

\* for(;pos<len;pos++) if(buf[pos] == delim) break;
RECURSIVE FindDelim(_, _)
FindDelim(p, i) ==
  IF i < Len(p.buf) /\ At(p.buf, i) # p.delim THEN FindDelim(p, i + 1) ELSE i

\* for(;pos<len;pos++) if(buf[pos] == ' ' || buf[pos] == '\t' || buf[pos] == '\n' ||
\*     (comment && buf[pos] == comment)) break;
RECURSIVE TokenEnd(_, _)
TokenEnd(p, i) ==
  IF i < Len(p.buf) /\ ~(IsBlank(At(p.buf, i)) \/ At(p.buf, i) = "\n"
                         \/ (p.comment # NUL /\ At(p.buf, i) = p.comment))
  THEN TokenEnd(p, i + 1) ELSE i

\* the scan of a delimited field stopping at blanks too
RECURSIVE DelimFieldEnd_Blank(_, _)
DelimFieldEnd_Blank(p, i) ==
  IF i < Len(p.buf) /\ ~(At(p.buf, i) = p.delim \/ At(p.buf, i) = "\n" \/ IsBlank(At(p.buf, i))
                         \/ (p.comment # NUL /\ At(p.buf, i) = p.comment))
  THEN DelimFieldEnd_Blank(p, i + 1) ELSE i

\* for(;pos<len;pos++) if(buf[pos] == delim || buf[pos] == '\n' ||
\*     (comment && buf[pos] == comment)) break;
RECURSIVE DelimFieldEnd(_, _)
DelimFieldEnd(p, i) ==
  IF i < Len(p.buf) /\ ~(At(p.buf, i) = p.delim \/ At(p.buf, i) = "\n"
                         \/ (p.comment # NUL /\ At(p.buf, i) = p.comment))
  THEN DelimFieldEnd(p, i + 1) ELSE i

\* read_skip stopping after the blanks, in front of the field
read_skip_Blanks(p) ==
  LET len == Len(p.buf)
      d == FindDelim(p, p.pos)
      b == SkipBlanks(p.buf, p.pos)
  IN  IF p.delim # NUL
      THEN IF d = len THEN Result([p EXCEPT !.pos = d, !.last_error = "T_EOL"], FALSE, <<>>)
           ELSE Result([p EXCEPT !.pos = d + 1, !.col = p.col + 1,
                                 !.last_error = "T_OK"], TRUE, <<>>)
      ELSE IF b > len THEN Undefined(p)
      ELSE IF AtLineEnd(p, b)
      THEN Result([p EXCEPT !.pos = b, !.last_error = "T_EOL"], FALSE, <<>>)
      ELSE Result([p EXCEPT !.pos = b, !.col = p.col + 1,
                            !.last_error = "T_OK"], TRUE, <<>>)

read_skip(p) ==
  LET len == Len(p.buf)
      d == FindDelim(p, p.pos)
      b == SkipBlanks(p.buf, p.pos)
  IN  IF p.delim # NUL
      THEN IF d = len THEN Result([p EXCEPT !.pos = d, !.last_error = "T_EOL"], FALSE, <<>>)
           ELSE Result([p EXCEPT !.pos = d + 1, !.col = p.col + 1,
                                 !.last_error = "T_OK"], TRUE, <<>>)
      ELSE IF b > len THEN Undefined(p)
      ELSE IF AtLineEnd(p, b)
      THEN Result([p EXCEPT !.pos = b, !.last_error = "T_EOL"], FALSE, <<>>)
      ELSE Result([p EXCEPT !.pos = TokenEnd(p, b), !.col = p.col + 1,
                            !.last_error = "T_OK"], TRUE, <<>>)

\* read_string2 and its callers read_string / read_string_view /
\* read_string_view_custom: the output is the text of [pos1.first, pos1.first + pos1.second)
read_string(p, advance_pos) ==
  LET len == Len(p.buf)
      Field(e, followed) ==
        Result([p EXCEPT !.pos = IF ~advance_pos THEN p.pos
                                 ELSE IF followed THEN e + 1 ELSE e,
                         !.last_error = IF followed THEN p.last_error ELSE "T_EOL"],
               TRUE, <<SubSeq(p.buf, p.pos + 1, e)>>)
      FieldTo(e) == Field(e, e < len /\ At(p.buf, e) = p.delim)
      Token(q, te) ==
        Result([q EXCEPT !.pos = IF advance_pos THEN te ELSE p.pos],
               TRUE, <<SubSeq(p.buf, q.pos + 1, te)>>)
      Checked(pc) ==
        IF pc.ub \/ ~pc.ret THEN pc ELSE Token(pc.p, TokenEnd(pc.p, pc.p.pos))
  IN  IF p.delim # NUL
      THEN IF p.last_error \in {"T_EOF", "T_EOL", "T_READ_ERROR", "T_ERROR_FOPEN"}
           THEN Result(p, FALSE, <<>>)
           ELSE IF p.pos > len
           \* pos1.first is beyond the buffer: std::string::assign throws
           \* std::out_of_range, the views are built from a pointer out of the buffer
           THEN Undefined([p EXCEPT !.last_error = "T_EOL"])
           ELSE FieldTo(DelimFieldEnd(p, p.pos))
      ELSE Checked(read_table_pre_check(p, advance_pos))

\* CheckBounds without the comparison against min and max
CheckBounds_Unchecked(p, old_pos, post, res, min, max, advance_pos) ==
  LET q == IF advance_pos THEN post.p ELSE [post.p EXCEPT !.pos = old_pos]
  IN  IF ~post.ret THEN Result(q, FALSE, <<>>)
      ELSE Result(q, TRUE, <<res>>)

\* CheckBounds with the bounds exclusive
CheckBounds_Exclusive(p, old_pos, post, res, min, max, advance_pos) ==
  LET q == IF advance_pos THEN post.p ELSE [post.p EXCEPT !.pos = old_pos]
  IN  IF ~post.ret THEN Result(q, FALSE, <<>>)
      ELSE IF NumLeq(max, res) \/ NumLeq(res, min)
      THEN Result([q EXCEPT !.last_error = "T_OVERFLOW"], FALSE,
                  <<IF NumLeq(res, min) THEN min ELSE max>>)
      ELSE Result(q, TRUE, <<res>>)

\* the tail shared by the integer reads: the bounds check on the converted value
\* res (performed only when read_table_post_check returned true) and the final
\* if(!advance_pos) pos = old_pos
CheckBounds(p, old_pos, post, res, min, max, advance_pos) ==
  LET q == IF advance_pos THEN post.p ELSE [post.p EXCEPT !.pos = old_pos]
  IN  IF ~post.ret THEN Result(q, FALSE, <<>>)
      ELSE IF NumLt(max, res) \/ NumLt(res, min)
      THEN Result([q EXCEPT !.last_error = "T_OVERFLOW"], FALSE,
                  <<IF NumLt(res, min) THEN min ELSE max>>)
      ELSE Result(q, TRUE, <<res>>)

\* bits: the width of long / unsigned long of the build
read_int32_limits(p, min, max, advance_pos, bits) ==
  LET Converted(q, conv) ==
        CheckBounds(q, p.pos, read_table_post_check(q, conv), conv.val,
                    min, max, advance_pos)
      Checked(pc) ==
        IF pc.ub \/ ~pc.ret THEN pc
        ELSE Converted(pc.p, StrToL(pc.p.buf, pc.p.pos, pc.p.base, bits))
  IN  Checked(read_table_pre_check(p, advance_pos))

\* use_long: strtol when long has 64 bits, strtoll otherwise
read_int64_limits(p, min, max, advance_pos, bits) ==
  LET Converted(q, conv) ==
        CheckBounds(q, p.pos, read_table_post_check(q, conv), conv.val,
                    min, max, advance_pos)
      Checked(pc) ==
        IF pc.ub \/ ~pc.ret THEN pc
        ELSE Converted(pc.p, StrToL(pc.p.buf, pc.p.pos, pc.p.base,
                                    IF bits >= 64 THEN bits ELSE 64))
  IN  Checked(read_table_pre_check(p, advance_pos))

\* the branch taken when buf[pos] is neither alphanumeric nor '+'
RejectSign(p, old_pos, advance_pos) ==
  Result([p EXCEPT !.last_error = IF At(p.buf, p.pos) = "-" THEN "T_OVERFLOW" ELSE "T_FORMAT",
                   !.pos = IF advance_pos THEN p.pos ELSE old_pos],
         FALSE, <<Zero>>)

\* UnsignedStart letting a '-' through to strtoul
UnsignedStart_Minus(c) == IsAlnum(c) \/ c = "+" \/ c = "-"

\* isalnum(buf[pos]) || buf[pos] == '+'
UnsignedStart(c) == IsAlnum(c) \/ c = "+"

read_uint32_limits(p, min, max, advance_pos, bits) ==
  LET Converted(q, conv) ==
        CheckBounds(q, p.pos, read_table_post_check(q, conv), conv.val,
                    min, max, advance_pos)
      Checked(pc) ==
        IF pc.ub \/ ~pc.ret THEN pc
        ELSE IF ~UnsignedStart(At(pc.p.buf, pc.p.pos))
        THEN RejectSign(pc.p, p.pos, advance_pos)
        ELSE Converted(pc.p, StrToUL(pc.p.buf, pc.p.pos, pc.p.base, bits))
  IN  Checked(read_table_pre_check(p, advance_pos))

\* use_ulong: strtoul when unsigned long has 64 bits, strtoull otherwise
read_uint64_limits(p, min, max, advance_pos, bits) ==
  LET Converted(q, conv) ==
        CheckBounds(q, p.pos, read_table_post_check(q, conv), conv.val,
                    min, max, advance_pos)
      Checked(pc) ==
        IF pc.ub \/ ~pc.ret THEN pc
        ELSE IF ~UnsignedStart(At(pc.p.buf, pc.p.pos))
        THEN RejectSign(pc.p, p.pos, advance_pos)
        ELSE Converted(pc.p, StrToUL(pc.p.buf, pc.p.pos, pc.p.base,
                                     IF bits >= 64 THEN bits ELSE 64))
  IN  Checked(read_table_pre_check(p, advance_pos))

\* if(ret) i = i2: the caller's 16-bit output is assigned on success only
read_int16_limits(p, min, max, advance_pos, bits) ==
  LET Narrow(r) == IF r.ret THEN r ELSE [r EXCEPT !.out = <<>>]
  IN  Narrow(read_int32_limits(p, min, max, advance_pos, bits))

read_uint16_limits(p, min, max, advance_pos, bits) ==
  LET Narrow(r) == IF r.ret THEN r ELSE [r EXCEPT !.out = <<>>]
  IN  Narrow(read_uint32_limits(p, min, max, advance_pos, bits))

\* d = strtod(...) is assigned whatever the checks say
read_double(p, advance_pos) ==
  LET Finish(conv, post, q) ==
        IF post.ret /\ ~p.allow_nan_inf /\ (IsNan(conv.val) \/ IsInf(conv.val))
        THEN Result([q EXCEPT !.last_error = "T_NAN"], FALSE, <<conv.val>>)
        ELSE Result(q, post.ret, <<conv.val>>)
      Posted(conv, post) ==
        Finish(conv, post, IF advance_pos THEN post.p ELSE [post.p EXCEPT !.pos = p.pos])
      Converted(q, conv) == Posted(conv, read_table_post_check(q, conv))
      Checked(pc) ==
        IF pc.ub \/ ~pc.ret THEN pc ELSE Converted(pc.p, StrToD(pc.p.buf, pc.p.pos))
  IN  Checked(read_table_pre_check(p, advance_pos))

\* read_double_limits rejecting a NaN only when allow_nan_inf is false
read_double_limits_Gated(p, min, max, advance_pos) ==
  LET Finish(conv, post, q) ==
        IF post.ret /\ IsNan(conv.val) /\ ~p.allow_nan_inf
        THEN Result([q EXCEPT !.last_error = "T_NAN"], FALSE, <<conv.val>>)
        ELSE IF post.ret /\ ~IsNan(conv.val)
                /\ ~(DblLeq(conv.val, max) /\ DblLeq(min, conv.val))
        THEN Result([q EXCEPT !.last_error = "T_OVERFLOW"], FALSE, <<conv.val>>)
        ELSE Result(q, post.ret, <<conv.val>>)
      Posted(conv, post) ==
        Finish(conv, post, IF advance_pos THEN post.p ELSE [post.p EXCEPT !.pos = p.pos])
      Converted(q, conv) == Posted(conv, read_table_post_check(q, conv))
      Checked(pc) ==
        IF pc.ub \/ ~pc.ret THEN pc ELSE Converted(pc.p, StrToD(pc.p.buf, pc.p.pos))
  IN  Checked(read_table_pre_check(p, advance_pos))

read_double_limits(p, min, max, advance_pos) ==
  LET Finish(conv, post, q) ==
        IF post.ret /\ IsNan(conv.val)
        THEN Result([q EXCEPT !.last_error = "T_NAN"], FALSE, <<conv.val>>)
        ELSE IF post.ret /\ ~(DblLeq(conv.val, max) /\ DblLeq(min, conv.val))
        THEN Result([q EXCEPT !.last_error = "T_OVERFLOW"], FALSE, <<conv.val>>)
        ELSE Result(q, post.ret, <<conv.val>>)
      Posted(conv, post) ==
        Finish(conv, post, IF advance_pos THEN post.p ELSE [post.p EXCEPT !.pos = p.pos])
      Converted(q, conv) == Posted(conv, read_table_post_check(q, conv))
      Checked(pc) ==
        IF pc.ub \/ ~pc.ret THEN pc ELSE Converted(pc.p, StrToD(pc.p.buf, pc.p.pos))
  IN  Checked(read_table_pre_check(p, advance_pos))

\* read_next<std::pair<double,double>>: bool ret = read_double(x) && read_double(y);
\* the pair is assigned when both succeed
read_pair(p, advance_pos) ==
  LET Restore(r) == IF advance_pos \/ r.ub THEN r ELSE [r EXCEPT !.p.pos = p.pos]
      Second(r1, r2) ==
        IF r2.ub \/ ~r2.ret THEN [r2 EXCEPT !.out = <<>>]
        ELSE [r2 EXCEPT !.out = r1.out \o r2.out]
      First(r1) ==
        IF r1.ub \/ ~r1.ret THEN [r1 EXCEPT !.out = <<>>]
        ELSE Second(r1, read_double(r1.p, TRUE))
  IN  Restore(First(read_double(p, TRUE)))

\* the bounded pair read without its bounds
read_pair_limits_Plain(p, min, max, advance_pos) == read_pair(p, advance_pos)

\* read_next<read_bounds_t<std::pair<double,double>>>
read_pair_limits(p, min, max, advance_pos) ==
  LET Restore(r) == IF advance_pos \/ r.ub THEN r ELSE [r EXCEPT !.p.pos = p.pos]
      Second(r1, r2) ==
        IF r2.ub \/ ~r2.ret THEN [r2 EXCEPT !.out = <<>>]
        ELSE [r2 EXCEPT !.out = r1.out \o r2.out]
      First(r1) ==
        IF r1.ub \/ ~r1.ret THEN [r1 EXCEPT !.out = <<>>]
        ELSE Second(r1, read_double_limits(r1.p, min[2], max[2], TRUE))
  IN  Restore(First(read_double_limits(p, min[1], max[1], TRUE)))

(***************************************************************************)
(* read_next and read                                                      *)
(* A read operation is [k, b]: the target type and the bounds of           *)
(* read_bounds_t (the limits of the type for a plain integer target).      *)
(***************************************************************************)

Int16 == [k |-> "int16", b |-> <<INT16_MIN, INT16_MAX>>]

Int32 == [k |-> "int32", b |-> <<INT32_MIN, INT32_MAX>>]

Int64 == [k |-> "int64", b |-> <<INT64_MIN, INT64_MAX>>]

UInt16 == [k |-> "uint16", b |-> <<Zero, UINT16_MAX>>]

UInt32 == [k |-> "uint32", b |-> <<Zero, UINT32_MAX>>]

UInt64 == [k |-> "uint64", b |-> <<Zero, UINT64_MAX>>]

Double == [k |-> "double", b |-> <<>>]

Pair == [k |-> "pair", b |-> <<>>]

String == [k |-> "string", b |-> <<>>]

\* read_table_skip()
Skip == [k |-> "skip", b |-> <<>>]

\* read_bounds(val, min, max)
read_bounds(op, min, max) ==
  [k |-> IF op.k = "double" THEN "double_limits"
         ELSE IF op.k = "pair" THEN "pair_limits" ELSE op.k,
   b |-> <<min, max>>]

\* read_bounds_coords(coords)
read_bounds_coords ==
  read_bounds(Pair, <<Fin(TRUE, 3, "18"), Fin(TRUE, 2, "9")>>,
                    <<Fin(FALSE, 3, "18"), Fin(FALSE, 2, "9")>>)

\* the specializations of read_next; the one for read_table_skip_t ignores advance_pos
read_next(p, op, advance_pos, bits) ==
  CASE op.k = "int16" -> read_int16_limits(p, op.b[1], op.b[2], advance_pos, bits)
    [] op.k = "int32" -> read_int32_limits(p, op.b[1], op.b[2], advance_pos, bits)
    [] op.k = "int64" -> read_int64_limits(p, op.b[1], op.b[2], advance_pos, bits)
    [] op.k = "uint16" -> read_uint16_limits(p, op.b[1], op.b[2], advance_pos, bits)
    [] op.k = "uint32" -> read_uint32_limits(p, op.b[1], op.b[2], advance_pos, bits)
    [] op.k = "uint64" -> read_uint64_limits(p, op.b[1], op.b[2], advance_pos, bits)
    [] op.k = "double" -> read_double(p, advance_pos)
    [] op.k = "double_limits" -> read_double_limits(p, op.b[1], op.b[2], advance_pos)
    [] op.k = "pair" -> read_pair(p, advance_pos)
    [] op.k = "pair_limits" -> read_pair_limits(p, op.b[1], op.b[2], advance_pos)
    [] op.k = "string" -> read_string(p, advance_pos)
    [] op.k = "skip" -> read_skip(p)

\* the operations of a read that were not reached leave their outputs alone
Untouched(ops) == [i \in 1..Len(ops) |-> <<>>]

RECURSIVE read(_, _, _)

\* read going on to the next operation after one that failed
read_through(p, ops, bits) ==
  IF ops = <<>> THEN [p |-> p, ret |-> TRUE, out |-> <<>>, ub |-> FALSE, tried |-> 0]
  ELSE LET Rest(r, rest) ==
             [rest EXCEPT !.out = <<r.out>> \o rest.out, !.tried = rest.tried + 1,
                          !.ret = r.ret /\ rest.ret]
           First(r) ==
             IF r.ub
             THEN [p |-> r.p, ret |-> FALSE, out |-> <<r.out>> \o Untouched(Tail(ops)),
                   ub |-> r.ub, tried |-> 1]
             ELSE Rest(r, read(r.p, Tail(ops), bits))
       IN  First(read_next(p, Head(ops), TRUE, bits))

\* read(first, rest...): if(!read_next(val,true)) return false; return read(vals...);
\* out holds one entry per operation; tried counts the calls of read_next
read(p, ops, bits) ==
  IF ops = <<>> THEN [p |-> p, ret |-> TRUE, out |-> <<>>, ub |-> FALSE, tried |-> 0]
  ELSE LET Rest(r, rest) ==
             [rest EXCEPT !.out = <<r.out>> \o rest.out, !.tried = rest.tried + 1]
           First(r) ==
             IF r.ub \/ ~r.ret
             THEN [p |-> r.p, ret |-> FALSE, out |-> <<r.out>> \o Untouched(Tail(ops)),
                   ub |-> r.ub, tried |-> 1]
             ELSE Rest(r, read(r.p, Tail(ops), bits))
       IN  First(read_next(p, Head(ops), TRUE, bits))

(***************************************************************************)
(* read_table2: a line_parser with the input stream `is` and the line      *)
(* counter.  The stream is [rest, eof, fail, faulty]: the characters not   *)
(* yet extracted, eofbit, failbit or badbit, and whether the source ends   *)
(* in a read fault instead of an end of file.                              *)
(***************************************************************************)

RECURSIVE FindNewline(_, _)
FindNewline(s, i) ==
  IF i < Len(s) /\ At(s, i) # "\n" THEN FindNewline(s, i + 1) ELSE i

\* std::getline(*is, buf): [is, buf] afterwards
GetLine(is, buf) ==
  LET n == FindNewline(is.rest, 0)
  IN  IF is.eof \/ is.fail
      \* the sentry fails: failbit is set and buf is not erased
      THEN [is |-> [is EXCEPT !.fail = TRUE], buf |-> buf]
      ELSE IF n < Len(is.rest)
      THEN [is |-> [is EXCEPT !.rest = SubSeq(is.rest, n + 2, Len(is.rest))],
            buf |-> SubSeq(is.rest, 1, n)]
      ELSE IF is.faulty
      THEN [is |-> [is EXCEPT !.rest = "", !.fail = TRUE], buf |-> is.rest]
      ELSE [is |-> [is EXCEPT !.rest = "", !.eof = TRUE, !.fail = (is.rest = "")],
            buf |-> is.rest]

\* if(buf.size()) for(char c : line_endings) if(buf.back() == c) { buf.pop_back(); break; }
StripLineEnding(buf) ==
  IF buf # "" /\ At(buf, Len(buf) - 1) \in {"\n", "\r"}
  THEN SubSeq(buf, 1, Len(buf) - 1) ELSE buf

\* the while(1) loop of read_line and the statements after it; fetched counts
\* the calls of std::getline
RECURSIVE ReadLineLoop(_, _, _)
ReadLineLoop(rt, is, skip) ==
  LET Done(r, g) ==
        [rt |-> [r EXCEPT !.col = 0, !.last_error = "T_OK", !.buf = StripLineEnding(r.buf)],
         is |-> g.is, ret |-> TRUE, ub |-> FALSE, fetched |-> 1]
      Again(r) == [r EXCEPT !.fetched = r.fetched + 1]
      \* r1: the line is in buf, line++ and pos = 0 done; b: where its blanks end
      Got(g, r1, b) ==
        IF g.is.eof
        THEN [rt |-> [rt EXCEPT !.buf = g.buf, !.last_error = "T_EOF"],
              is |-> g.is, ret |-> FALSE, ub |-> FALSE, fetched |-> 1]
        ELSE IF g.is.fail
        THEN [rt |-> [rt EXCEPT !.buf = g.buf, !.last_error = "T_READ_ERROR"],
              is |-> g.is, ret |-> FALSE, ub |-> FALSE, fetched |-> 1]
        ELSE IF ~skip THEN Done(r1, g)
        ELSE IF b < Len(g.buf) /\ ~(rt.comment # NUL /\ At(g.buf, b) = rt.comment)
        THEN Done([r1 EXCEPT !.pos = IF rt.delim # NUL THEN 0 ELSE b], g)
        ELSE Again(ReadLineLoop([r1 EXCEPT !.pos = b], g.is, skip))
      Line(g) ==
        Got(g, [rt EXCEPT !.buf = g.buf, !.line = rt.line + 1, !.pos = 0],
            SkipBlanks(g.buf, 0))
  IN  Line(GetLine(is, rt.buf))

\* read_line leaving last_error as the reads of the line before set it
read_line_KeepError(rt, is, skip) ==
  LET Keep(r) == IF r.ret THEN [r EXCEPT !.rt.last_error = rt.last_error] ELSE r
  IN  IF rt.last_error \in {"T_EOF", "T_COPIED", "T_ERROR_FOPEN"}
      THEN [rt |-> rt, is |-> is, ret |-> FALSE, ub |-> FALSE, fetched |-> 0]
      ELSE IF rt.is = "null"
      THEN [rt |-> rt, is |-> is, ret |-> FALSE, ub |-> TRUE, fetched |-> 0]
      ELSE IF is.eof
      THEN [rt |-> [rt EXCEPT !.last_error = "T_EOF"], is |-> is, ret |-> FALSE,
            ub |-> FALSE, fetched |-> 0]
      ELSE Keep(ReadLineLoop(rt, is, skip))

\* read_line refusing to go on after any error, a parse failure included
read_line_Strict(rt, is, skip) ==
  IF rt.last_error # "T_OK"
  THEN [rt |-> rt, is |-> is, ret |-> FALSE, ub |-> FALSE, fetched |-> 0]
  ELSE IF rt.is = "null"
  THEN [rt |-> rt, is |-> is, ret |-> FALSE, ub |-> TRUE, fetched |-> 0]
  ELSE IF is.eof
  THEN [rt |-> [rt EXCEPT !.last_error = "T_EOF"], is |-> is, ret |-> FALSE, ub |-> FALSE,
        fetched |-> 0]
  ELSE ReadLineLoop(rt, is, skip)

read_line(rt, is, skip) ==
  IF rt.last_error \in {"T_EOF", "T_COPIED", "T_ERROR_FOPEN"}
  THEN [rt |-> rt, is |-> is, ret |-> FALSE, ub |-> FALSE, fetched |-> 0]
  ELSE IF rt.is = "null"
  \* is->eof() through the null pointer of a moved-from instance
  THEN [rt |-> rt, is |-> is, ret |-> FALSE, ub |-> TRUE, fetched |-> 0]
  ELSE IF is.eof
  THEN [rt |-> [rt EXCEPT !.last_error = "T_EOF"], is |-> is, ret |-> FALSE, ub |-> FALSE,
        fetched |-> 0]
  ELSE ReadLineLoop(rt, is, skip)

set_line(p, text) == [p EXCEPT !.buf = text, !.col = 0, !.pos = 0, !.last_error = "T_OK"]

\* reset_pos leaving last_error as it is
reset_pos_KeepError(p) ==
  IF p.last_error \in {"T_COPIED", "T_EOF", "T_ERROR_FOPEN", "T_READ_ERROR"} THEN p
  ELSE [p EXCEPT !.pos = 0, !.col = 0]

reset_pos(p) ==
  IF p.last_error \in {"T_COPIED", "T_EOF", "T_ERROR_FOPEN", "T_READ_ERROR"} THEN p
  ELSE [p EXCEPT !.pos = 0, !.col = 0, !.last_error = "T_OK"]

\* read_table2(std::istream& is_, par)
read_table2(par) == [f \in DOMAIN line_parser_init(par) \cup {"is", "line"} |->
                       IF f = "is" THEN "stream"
                       ELSE IF f = "line" THEN 0 ELSE line_parser_init(par)[f]]

\* read_table2(const char* fn_, par) when the file cannot be opened
read_table2_open_failed(par) == [read_table2(par) EXCEPT !.last_error = "T_ERROR_FOPEN"]

\* what a move leaves in its source r: the string moved out, last_error = T_COPIED,
\* pos = col = 0, r.is = nullptr
MovedFrom(r) ==
  [r EXCEPT !.buf = "", !.last_error = "T_COPIED", !.pos = 0, !.col = 0, !.is = "null"]

\* the instance a move builds from r; neither line_parser(line_parser&&) nor its
\* operator= assigns delim, which is d: an indeterminate value in the constructor,
\* the destination's own delimiter in the assignment
MovedTo(r, d) == [r EXCEPT !.delim = d]

(***************************************************************************)
(* The inputs of the model                                                 *)
(***************************************************************************)

\* reads are issued while col is below this
MaxCol == 3

\* the parameters the instances are built with
Whitespace == line_parser_params

Commented == [line_parser_params EXCEPT !.comment = "#", !.allow_nan_inf = FALSE]

Delimited == [line_parser_params EXCEPT !.delim = ",", !.comment = "#"]

Params == {Whitespace, Commented, Delimited}

\* the runs of the model: the parameters of the instance, the text of its
\* stream, whether the stream ends in a read fault (not in an end of file),
\* whether opening the file failed, and the width of long of the build
\* (LP64, or LLP64 / a 32-bit target)
Run(par, file, faulty, failed, bits) ==
  [par |-> par, file |-> file, faulty |-> faulty, failed |-> failed, bits |-> bits]

Runs ==
  { Run(Whitespace, "-4 -3 0\n1 7 8\n", FALSE, FALSE, 64),
    Run(Whitespace, "8\n", TRUE, FALSE, 32),
    Run(Commented, "# c\n\r\n \n-3 7a# c\n8", FALSE, FALSE, 64),
    Run(Delimited, "1,,3\n7 a,-4 # c\n", FALSE, FALSE, 32),
    Run(Commented, "1 7\n\n# c\n", FALSE, FALSE, 32),
    Run(Delimited, "", FALSE, TRUE, 64) }

\* the read operations the stream runs issue, by name
OpNames ==
  {"int16", "int32", "int64", "uint16", "uint32", "uint64", "double", "pair",
   "string", "skip", "int16[-3,7]", "int32[-3,7]", "int64[-3,7]", "uint16[1,7]",
   "uint32[1,7]", "uint64[1,7]", "double[-180,180]", "coords"}

\* the argument of read_next that a name stands for
Op(n) ==
  CASE n = "int16" -> Int16
    [] n = "int32" -> Int32
    [] n = "int64" -> Int64
    [] n = "uint16" -> UInt16
    [] n = "uint32" -> UInt32
    [] n = "uint64" -> UInt64
    [] n = "double" -> Double
    [] n = "pair" -> Pair
    [] n = "string" -> String
    [] n = "skip" -> Skip
    [] n = "int16[-3,7]" -> read_bounds(Int16, Neg("3"), Pos("7"))
    [] n = "int32[-3,7]" -> read_bounds(Int32, Neg("3"), Pos("7"))
    [] n = "int64[-3,7]" -> read_bounds(Int64, Neg("3"), Pos("7"))
    [] n = "uint16[1,7]" -> read_bounds(UInt16, Pos("1"), Pos("7"))
    [] n = "uint32[1,7]" -> read_bounds(UInt32, Pos("1"), Pos("7"))
    [] n = "uint64[1,7]" -> read_bounds(UInt64, Pos("1"), Pos("7"))
    [] n = "double[-180,180]" -> read_bounds(Double, Fin(TRUE, 3, "18"), Fin(FALSE, 3, "18"))
    [] n = "coords" -> read_bounds_coords
    [] n = "uint32[0,100]" -> read_bounds(UInt32, Zero, Pos("100"))
    [] n = "int16[-3000,4000]" -> read_bounds(Int16, Neg("3000"), Pos("4000"))
    [] n = "double[-90,90]" -> read_bounds(Double, Fin(TRUE, 2, "9"), Fin(FALSE, 2, "9"))
    [] n = "int32[0,10]" -> read_bounds(Int32, Zero, Pos("10"))
    [] n = "int32[1,7]" -> read_bounds(Int32, Pos("1"), Pos("7"))

\* the argument lists of read(...) the model issues
Schemas ==
  { <<"int32", "int32">>,
    <<"uint32", "uint32", "uint32">>,
    <<"int32", "double", "string">> }

OpsOf(names) == [i \in 1..Len(names) |-> Op(names[i])]

\* the text set_line is given
SetLines == {"7"}

\* the values an uninitialised delim may hold after the move constructor
Indeterminate == {NUL, ",", "x"}

\* the stream of an instance that owns none: its stream went with a move
NoStream == [rest |-> "", eof |-> FALSE, fail |-> FALSE, faulty |-> FALSE]

(***************************************************************************)
(* The state machine: one read_table2 instance rt reading the stream is,   *)
(* and last, the record of the call just made: the operation, its          *)
(* arguments, rt and is before the call, what the call returned and what   *)
(* it assigned (for a move: the instance the move built), and in tried the *)
(* calls it made: of read_next for read, of std::getline for read_line.    *)
(***************************************************************************)

VARIABLES rt, is, bits, ub, last

vars == <<rt, is, bits, ub, last>>

Call(op, arg, adv, ret, out, tried) ==
  [op |-> op, arg |-> arg, adv |-> adv, pre |-> rt, pre_is |-> is,
   ret |-> ret, out |-> out, tried |-> tried]

Init ==
  /\ \E run \in Runs :
       /\ rt = IF run.failed THEN read_table2_open_failed(run.par) ELSE read_table2(run.par)
       /\ is = [rest |-> run.file, eof |-> FALSE, fail |-> run.failed, faulty |-> run.faulty]
       /\ bits = run.bits
  /\ ub = FALSE
  /\ last = [op |-> "init", arg |-> <<>>, adv |-> TRUE, pre |-> rt, pre_is |-> is,
             ret |-> TRUE, out |-> <<>>, tried |-> 0]

ReadNext(op, advance_pos) ==
  /\ ~ub
  /\ rt.col < MaxCol
  /\ \E r \in {read_next(rt, Op(op), advance_pos, bits)} :
       /\ rt' = r.p
       /\ ub' = r.ub
       /\ last' = Call("read_next", op, advance_pos, r.ret, r.out, 1)
  /\ UNCHANGED <<is, bits>>

Read(ops) ==
  /\ ~ub
  /\ rt.col < MaxCol
  /\ \E r \in {read(rt, OpsOf(ops), bits)} :
       /\ rt' = r.p
       /\ ub' = r.ub
       /\ last' = Call("read", ops, TRUE, r.ret, r.out, r.tried)
  /\ UNCHANGED <<is, bits>>

ReadLine(skip) ==
  /\ ~ub
  /\ \E r \in {read_line(rt, is, skip)} :
       /\ rt' = r.rt
       /\ is' = r.is
       /\ ub' = r.ub
       /\ last' = Call("read_line", skip, TRUE, r.ret, <<>>, r.fetched)
  /\ UNCHANGED bits

SetLine(text) ==
  /\ ~ub
  /\ rt' = set_line(rt, text)
  /\ last' = Call("set_line", text, TRUE, TRUE, <<>>, 0)
  /\ UNCHANGED <<is, bits, ub>>

ResetPos ==
  /\ ~ub
  /\ rt' = reset_pos(rt)
  /\ last' = Call("reset_pos", <<>>, TRUE, TRUE, <<>>, 0)
  /\ UNCHANGED <<is, bits, ub>>

\* read_table2 dst(std::move(rt)), rt an instance that still owns its stream
MoveConstruct(d) ==
  /\ ~ub
  /\ rt.is # "null"
  /\ rt' = MovedFrom(rt)
  /\ is' = NoStream
  /\ last' = Call("move_construct", d, TRUE, TRUE, <<MovedTo(rt, d)>>, 0)
  /\ UNCHANGED <<bits, ub>>

\* dst = std::move(rt), dst an instance built with the parameters par
MoveAssign(par) ==
  /\ ~ub
  /\ rt.is # "null"
  /\ rt' = MovedFrom(rt)
  /\ is' = NoStream
  /\ last' = Call("move_assign", par.delim, TRUE, TRUE, <<MovedTo(rt, par.delim)>>, 0)
  /\ UNCHANGED <<bits, ub>>

Next ==
  \/ \E op \in OpNames, advance_pos \in BOOLEAN : ReadNext(op, advance_pos)
  \/ \E ops \in Schemas : Read(ops)
  \/ \E skip \in BOOLEAN : ReadLine(skip)
  \/ \E text \in SetLines : SetLine(text)
  \/ ResetPos
  \/ \E d \in Indeterminate : MoveConstruct(d)
  \/ \E par \in Params : MoveAssign(par)

Spec == Init /\ [][Next]_vars

(***************************************************************************)
(* What the specification says of the calls, stated on last: the call just *)
(* made, the instance before it (last.pre) and after it (rt).              *)
(***************************************************************************)

\* EndOfInput, Invalidated, OpenFailure, ReadFailure
Sticky == {"T_EOF", "T_COPIED", "T_ERROR_FOPEN", "T_READ_ERROR"}

UnsignedOps == {"uint16", "uint32", "uint64", "uint16[1,7]", "uint32[1,7]", "uint64[1,7]"}

SignedOps == {"int16", "int32", "int64", "int16[-3,7]", "int32[-3,7]", "int64[-3,7]"}

IntegerOps == SignedOps \cup UnsignedOps

NumericOps == IntegerOps \cup {"double", "pair", "double[-180,180]", "coords"}

\* the call just made is read_next of one of the operations `names`, on an
\* instance whose last_error lets a read scan the line
Scanned(names) ==
  /\ last.op = "read_next"
  /\ last.arg \in names
  /\ ~PreCheckBlocked(last.pre.last_error)
  /\ ~ub

\* where the field at the cursor of p starts: its first non-blank character
FieldStart(p) == SkipBlanks(p.buf, p.pos)

\* the first non-blank character at the cursor of p
NextChar(p) == At(p.buf, FieldStart(p))

\* where the text that starts at i stops: at a blank, the delimiter, the
\* comment character or the end of the line
RECURSIVE FieldStop(_, _)
FieldStop(p, i) ==
  IF i < Len(p.buf) /\ ~IsBlank(At(p.buf, i)) /\ At(p.buf, i) # "\n"
     /\ At(p.buf, i) # p.delim /\ At(p.buf, i) # p.comment
  THEN FieldStop(p, i + 1) ELSE i

\* the text of the field at the cursor of p
FieldText(p) == SubSeq(p.buf, FieldStart(p) + 1, FieldStop(p, FieldStart(p)))

\* what ends a field that stops at e: the end of the line or a comment, else a
\* blank in whitespace mode, the delimiter (after blanks) in delimiter mode
TerminatedAt(p, e) ==
  \/ AtLineEnd(p, SkipBlanks(p.buf, e))
  \/ p.delim = NUL /\ SkipBlanks(p.buf, e) > e
  \/ p.delim # NUL /\ At(p.buf, SkipBlanks(p.buf, e)) = p.delim

\* the decimal integers the lines of the runs hold, and their values
WellFormed == {"-4", "-3", "0", "1", "3", "7", "8"}

ValueOf(t) ==
  CASE t = "-4" -> [neg |-> TRUE, mag |-> <<4>>]
    [] t = "-3" -> [neg |-> TRUE, mag |-> <<3>>]
    [] t = "0" -> [neg |-> FALSE, mag |-> <<>>]
    [] t = "1" -> [neg |-> FALSE, mag |-> <<1>>]
    [] t = "3" -> [neg |-> FALSE, mag |-> <<3>>]
    [] t = "7" -> [neg |-> FALSE, mag |-> <<7>>]
    [] t = "8" -> [neg |-> FALSE, mag |-> <<8>>]

\* C1: once last_error is T_EOF, T_COPIED, T_ERROR_FOPEN or T_READ_ERROR, a field
\* read of any kind returns failure, leaves last_error that same kind, and leaves
\* pos and col as they were.
C1_StickyReadsFail ==
  (last.op = "read_next" /\ last.pre.last_error \in Sticky /\ ~ub)
    => /\ ~last.ret
       /\ rt.last_error = last.pre.last_error
       /\ rt.pos = last.pre.pos
       /\ rt.col = last.pre.col

\* C1, the case that fails: read_skip at the end of input ends with T_EOL
C1_SkipAfterEof ==
  /\ last.op = "read_next"
  /\ last.arg = "skip"
  /\ last.pre.last_error = "T_EOF"
  /\ rt.last_error = "T_EOL"

\* C2: an unsigned read (16, 32 or 64 bits, any bounds) of a field whose first
\* non-blank character is '-' returns failure with last_error = T_OVERFLOW.
C2_MinusIsOverflow ==
  (Scanned(UnsignedOps) /\ NextChar(last.pre) = "-")
    => (~last.ret /\ rt.last_error = "T_OVERFLOW")

C2_MinusRead ==
  /\ Scanned({"uint64"})
  /\ FieldText(last.pre) = "-4"
  /\ ~last.ret
  /\ rt.last_error = "T_OVERFLOW"

\* C3: a bounded integer read (signed or unsigned, 16, 32 or 64 bits; the plain
\* reads are the bounded ones with the limits of the type) of a well-formed,
\* properly terminated field of value v succeeds exactly when min <= v <= max,
\* then outputs v, and fails with T_OVERFLOW otherwise (so at min - 1 and max + 1).
C3_BoundsInclusive ==
  (/\ Scanned(IntegerOps)
   /\ FieldText(last.pre) \in WellFormed
   /\ TerminatedAt(last.pre, FieldStop(last.pre, FieldStart(last.pre))))
    => \E v \in {ValueOf(FieldText(last.pre))} :
         \E within \in {NumLeq(Op(last.arg).b[1], v) /\ NumLeq(v, Op(last.arg).b[2])} :
           /\ last.ret <=> within
           /\ last.ret => last.out = <<v>>
           /\ ~last.ret => rt.last_error = "T_OVERFLOW"

C3_OneAboveMax ==
  /\ Scanned({"int32[-3,7]"})
  /\ FieldText(last.pre) = "8"
  /\ ~last.ret
  /\ rt.last_error = "T_OVERFLOW"

\* C4: when read(op1..opN), called at the start of a line, returns success, col
\* equals N, the number of operations applied.
C4_ColumnCountsOperations ==
  (last.op = "read" /\ last.ret /\ last.pre.pos = 0 /\ last.pre.col = 0 /\ ~ub)
    => rt.col = Len(last.arg)

\* C4, the case that fails: three fields read by three operations, col is 2
C4_LastFieldNotCounted ==
  /\ last.op = "read"
  /\ last.arg = <<"uint32", "uint32", "uint32">>
  /\ last.pre.buf = "1 7 8"
  /\ last.pre.pos = 0
  /\ last.ret
  /\ rt.col = 2
  /\ AtLineEnd(rt, rt.pos)

\* C5: read_next(x, advance_pos = false), for any target, leaves pos, col and the
\* line text as they were, whether it succeeds or fails.
C5_PeekLeavesCursor ==
  (last.op = "read_next" /\ ~last.adv /\ ~ub)
    => /\ rt.pos = last.pre.pos
       /\ rt.col = last.pre.col
       /\ rt.buf = last.pre.buf

\* C5, the case that fails: a successful peek of an int32 counts a column
C5_PeekCountsColumn ==
  /\ last.op = "read_next"
  /\ last.arg = "int32"
  /\ ~last.adv
  /\ last.ret
  /\ rt.pos = last.pre.pos
  /\ rt.col = last.pre.col + 1

\* C6: in delimiter mode a numeric read whose field is empty (after the blanks
\* the current character is the delimiter) fails with T_MISSING and leaves col as it
\* was; with delimiter ',' the line "1,,3" read as (uint32, uint32, uint32) succeeds
\* on the first field and fails with T_MISSING on the second; in whitespace mode
\* last_error is never T_MISSING.
C6_EmptyFieldIsMissing ==
  /\ (Scanned(NumericOps) /\ last.pre.delim # NUL /\ NextChar(last.pre) = last.pre.delim)
       => (~last.ret /\ rt.last_error = "T_MISSING" /\ rt.col = last.pre.col)
  /\ (/\ last.op = "read"
      /\ last.arg = <<"uint32", "uint32", "uint32">>
      /\ last.pre.delim = ","
      /\ last.pre.buf = "1,,3"
      /\ last.pre.pos = 0
      /\ last.pre.last_error = "T_OK")
       => /\ ~last.ret
          /\ last.tried = 2
          /\ last.out[1] = <<ValueOf("1")>>
          /\ rt.last_error = "T_MISSING"
  /\ rt.delim = NUL => rt.last_error # "T_MISSING"

C6_SecondFieldMissing ==
  /\ last.op = "read"
  /\ last.arg = <<"uint32", "uint32", "uint32">>
  /\ last.pre.buf = "1,,3"
  /\ last.pre.pos = 0
  /\ last.tried = 2
  /\ rt.last_error = "T_MISSING"

\* where the decimal digits that start at i stop
RECURSIVE NumberStop(_, _)
NumberStop(buf, i) ==
  IF At(buf, i) \in {"0", "1", "2", "3", "4", "5", "6", "7", "8", "9"}
  THEN NumberStop(buf, i + 1) ELSE i

\* where the digits of the number at the cursor of p start, after its sign
DigitsFrom(p) == IF NextChar(p) \in {"+", "-"} THEN FieldStart(p) + 1 ELSE FieldStart(p)

NumberEnd(p) == NumberStop(p.buf, DigitsFrom(p))

\* the operation op converts the number at the cursor of p: a decimal integer
\* any of the types holds (no '-' for an unsigned type), after which neither a
\* fraction nor an exponent starts
Converts(p, op) ==
  /\ NumberEnd(p) > DigitsFrom(p)
  /\ NumberEnd(p) - DigitsFrom(p) <= 4
  /\ op \in UnsignedOps => NextChar(p) # "-"
  /\ At(p.buf, NumberEnd(p)) \notin {".", "e", "E"}

\* C7: in whitespace mode a numeric read whose number is immediately followed by
\* a character that is not a space, a tab, a newline, the comment character or the
\* end of the text fails with T_FORMAT; in delimiter mode a numeric read whose
\* number is followed, after optional blanks, by a character that is not the
\* delimiter, the comment character or the end of the line fails with T_FORMAT.
C7_JunkAfterNumber ==
  (/\ Scanned(NumericOps)
   /\ Converts(last.pre, last.arg)
   /\ IF last.pre.delim = NUL
      THEN /\ ~AtLineEnd(last.pre, NumberEnd(last.pre))
           /\ ~IsBlank(At(last.pre.buf, NumberEnd(last.pre)))
      ELSE /\ ~AtLineEnd(last.pre, SkipBlanks(last.pre.buf, NumberEnd(last.pre)))
           /\ At(last.pre.buf, SkipBlanks(last.pre.buf, NumberEnd(last.pre))) # last.pre.delim)
    => (~last.ret /\ rt.last_error = "T_FORMAT")

C7_LetterAfterNumber ==
  /\ Scanned({"int32"})
  /\ last.pre.delim = NUL
  /\ FieldText(last.pre) = "7a"
  /\ ~last.ret
  /\ rt.last_error = "T_FORMAT"

\* the calls of read_next that read(ops) is to make on p: one after the other,
\* up to and including the first that fails
RECURSIVE Steps(_, _, _)
Steps(p, ops, b) ==
  IF ops = <<>> THEN <<>>
  ELSE LET Then(r) ==
             <<r>> \o (IF r.ret /\ ~r.ub THEN Steps(r.p, Tail(ops), b) ELSE <<>>)
       IN  Then(read_next(p, Head(ops), TRUE, b))

\* C8: read(op1..opN) applies the operations left to right and stops at the first
\* that fails: it then returns failure with that operation's last_error, the later
\* operations are not attempted (their outputs, pos and col are as the failing one
\* left them) and the outputs of the earlier ones keep their values; it returns
\* success if and only if every operation succeeds.
C8_ReadStopsAtFirstFailure ==
  last.op = "read"
    => \E st \in {Steps(last.pre, OpsOf(last.arg), bits)} :
         /\ last.tried = Len(st)
         /\ rt = st[Len(st)].p
         /\ ub = st[Len(st)].ub
         /\ last.ret <=> (Len(st) = Len(last.arg) /\ \A i \in 1..Len(st) : st[i].ret)
         /\ \A i \in 1..Len(last.arg) :
              last.out[i] = IF i <= Len(st) THEN st[i].out ELSE <<>>

C8_StoppedAtSecond ==
  /\ last.op = "read"
  /\ Len(last.arg) = 3
  /\ last.tried = 2
  /\ ~last.ret
  /\ last.out[1] # <<>>
  /\ last.out[3] = <<>>
  /\ rt.last_error = "T_MISSING"

\* the number of fields of the line of p from offset i on: in whitespace mode
\* the texts between blanks, in delimiter mode one more than the delimiters,
\* up to the comment character or the end of the line
RECURSIVE CountFields(_, _)
CountFields(p, i) ==
  IF p.delim = NUL
  THEN IF AtLineEnd(p, SkipBlanks(p.buf, i)) THEN 0
       ELSE 1 + CountFields(p, FieldStop(p, SkipBlanks(p.buf, i)))
  ELSE IF AtLineEnd(p, i) THEN 1
       ELSE (IF At(p.buf, i) = p.delim THEN 1 ELSE 0) + CountFields(p, i + 1)

\* C9: read(op1..opN), called at the start of a line, succeeds only when the line
\* holds exactly N fields: not when it holds fewer, and not when it holds more.
C9_ExactFieldCount ==
  (last.op = "read" /\ last.ret /\ last.pre.pos = 0 /\ last.pre.col = 0 /\ ~ub)
    => CountFields(last.pre, 0) = Len(last.arg)

\* C9, the case that fails: two operations accept a line of three fields
C9_ExtraFieldAccepted ==
  /\ last.op = "read"
  /\ last.arg = <<"int32", "int32">>
  /\ last.pre.buf = "1 7 8"
  /\ last.pre.pos = 0
  /\ last.ret

\* the line text holds no data for p: it is empty, blanks only, or blanks then
\* the comment character
NoData(p, text) ==
  \/ SkipBlanks(text, 0) = Len(text)
  \/ p.comment # NUL /\ At(text, SkipBlanks(text, 0)) = p.comment

\* C10: with skip enabled, read_line() does not return success on a line that,
\* its line terminator stripped, is empty, blanks only, or blanks then the comment
\* character.
C10_SkipReturnsData ==
  (last.op = "read_line" /\ last.arg = TRUE /\ last.ret) => ~NoData(rt, rt.buf)

\* C10, the case that fails: the empty line of a CR LF text is made current
C10_EmptyLineReturned ==
  /\ last.op = "read_line"
  /\ last.arg = TRUE
  /\ last.ret
  /\ rt.buf = ""
  /\ rt.line = 2

\* C11: read_line() called while last_error is T_EOF, T_COPIED, T_ERROR_FOPEN or
\* T_READ_ERROR returns failure without a call of std::getline on the stream and
\* without leaving defined behaviour, and leaves buf, pos, col, line and
\* last_error (and the stream) as they were.
C11_StickyReadLineIsNoOp ==
  (last.op = "read_line" /\ last.pre.last_error \in Sticky)
    => /\ ~last.ret
       /\ ~ub
       /\ last.tried = 0
       /\ rt = last.pre
       /\ is = last.pre_is

\* C11, the case that fails: after a read fault read_line calls std::getline again
C11_RetryAfterReadError ==
  /\ last.op = "read_line"
  /\ last.pre.last_error = "T_READ_ERROR"
  /\ last.pre_is.fail
  /\ last.tried = 1
  /\ ~last.ret
  /\ rt.last_error = "T_READ_ERROR"

\* C12: set_line(text) makes text the line; when last_error is none of T_EOF,
\* T_COPIED, T_ERROR_FOPEN, T_READ_ERROR it sets pos = 0, col = 0 and
\* last_error = T_OK; when last_error is one of those four it leaves last_error
\* as it was.
C12_SetLineKeepsStickyError ==
  last.op = "set_line"
    => /\ rt.buf = last.arg
       /\ last.pre.last_error \notin Sticky
            => (rt.pos = 0 /\ rt.col = 0 /\ rt.last_error = "T_OK")
       /\ last.pre.last_error \in Sticky => rt.last_error = last.pre.last_error

\* C12, the case that fails: set_line at the end of input leaves T_OK
C12_SetLineAfterEof ==
  /\ last.op = "set_line"
  /\ last.pre.last_error = "T_EOF"
  /\ rt.buf = last.arg
  /\ rt.last_error = "T_OK"

\* C13: a read that returns success (read_next of a numeric, bounded, pair, skip
\* or string operation, in whitespace and in delimiter mode, or read) leaves
\* last_error = T_OK, whatever last_error was before the call.
C13_SuccessLeavesOk ==
  (last.op \in {"read_next", "read"} /\ last.ret /\ ~ub) => rt.last_error = "T_OK"

\* C13, the case that fails: in delimiter mode the string read of the last field
\* of the line succeeds and leaves T_EOL
C13_LastStringLeavesEol ==
  /\ last.op = "read_next"
  /\ last.arg = "string"
  /\ last.pre.delim # NUL
  /\ last.pre.last_error = "T_OK"
  /\ last.ret
  /\ last.out = <<"3">>
  /\ rt.last_error = "T_EOL"

\* C14: a field read (read_next of any operation, read) or read_line ends by
\* returning: it neither throws nor leaves defined behaviour; and when it
\* returns failure, last_error is not T_OK after the call.
C14_FailureSetsError ==
  last.op \in {"read_next", "read", "read_line"}
    => /\ ~ub
       /\ ~last.ret => rt.last_error # "T_OK"

\* C14, the case that fails: in delimiter mode, with the cursor beyond the text
\* that the end of input left in buf, the string read ends in std::out_of_range
C14_StringReadThrows ==
  /\ last.op = "read_next"
  /\ last.arg = "string"
  /\ last.pre.delim # NUL
  /\ last.pre.last_error = "T_OK"
  /\ last.pre.pos > Len(last.pre.buf)
  /\ ub

\* C15: an advancing read that returns failure (T_FORMAT, T_OVERFLOW from the
\* conversion or from the caller's bounds, T_NAN, T_MISSING, T_EOL) leaves col
\* as it was; an advancing read of one field that returns success increments col
\* by exactly 1.
C15_ColumnCountsSuccesses ==
  (last.op = "read_next" /\ last.adv /\ ~ub)
    => /\ ~last.ret => rt.col = last.pre.col
       /\ (last.ret /\ last.arg \notin {"pair", "coords"}) => rt.col = last.pre.col + 1

\* C15, the case that fails: a value below the caller's minimum is refused with
\* T_OVERFLOW after col has been incremented
C15_BoundsFailureCountsColumn ==
  /\ last.op = "read_next"
  /\ last.arg = "int32[-3,7]"
  /\ last.adv
  /\ FieldText(last.pre) = "-4"
  /\ ~last.ret
  /\ rt.last_error = "T_OVERFLOW"
  /\ rt.col = last.pre.col + 1

\* C16: in every state reached by set_line, reset_pos, read_line (the calls that
\* meet the end of input or a read fault included), reads, peeks, read_skip and
\* moves, 0 <= pos <= the length of buf.
C16_PosWithinLine ==
  0 <= rt.pos /\ rt.pos <= Len(rt.buf)

\* C16, the case that fails: read_line at the end of input empties buf and
\* leaves pos where the reads of the last line put it
C16_PosBeyondEmptiedLine ==
  /\ last.op = "read_line"
  /\ ~last.ret
  /\ rt.last_error = "T_EOF"
  /\ rt.buf = ""
  /\ rt.pos = last.pre.pos
  /\ rt.pos > 0

\* C17: once the instance has been the source of a move construction or a move
\* assignment, last_error is T_COPIED and stays T_COPIED whatever is called on it
\* (reads, string reads, read_skip, reset_pos, set_line, read_line); every read
\* and every read_line on it returns failure, and read_line never gets to the
\* access of its null stream pointer.
C17_MovedFromStaysInvalid ==
  rt.is = "null"
    => /\ rt.last_error = "T_COPIED"
       /\ ~ub
       /\ (last.op \in {"read_next", "read", "read_line"} /\ last.pre.is = "null")
            => ~last.ret

\* C17, the case that fails: read_skip turns T_COPIED into T_EOL, and read_line
\* then goes past its gate to is->eof() on the null pointer
C17_ReadLineOnNullStream ==
  /\ last.op = "read_line"
  /\ last.pre.is = "null"
  /\ last.pre.last_error = "T_EOL"
  /\ ub

(***************************************************************************)
(* The second specification: a line_parser built on one line of text, read *)
(* by read_next and read and rewound by reset_pos.                         *)
(***************************************************************************)

\* line_parser(par, text): the constructor that copies its arguments into buf
line_parser(par, text) == [line_parser_init(par) EXCEPT !.buf = text]

\* the lines the parsers are built on
Lines ==
  { "42 -12.5 hello 7", "0 180 x -3000", "100\t-180.0 7a 4000",
    "  100000000000 3.0", "2147483648 -2147483649", "2147483647 99999999999999999999",
    "nan inf -inf", "NaN 180.5", "-1e3 1e999" }

\* the widths of long of the builds
LineBits == {32, 64}

\* the read operations issued on a line, by name
LineOps ==
  {"uint32[0,100]", "double[-180,180]", "skip", "int16[-3000,4000]", "int32", "double",
   "pair", "coords"}

\* the argument lists of read(...) issued on a line
LineSchemas ==
  { <<"uint32[0,100]", "double[-180,180]", "skip", "int16[-3000,4000]">>,
    <<"int32", "double">> }

InitLine ==
  /\ \E par \in {Whitespace, Commented}, text \in Lines : rt = line_parser(par, text)
  /\ is = NoStream
  /\ bits \in LineBits
  /\ ub = FALSE
  /\ last = [op |-> "init", arg |-> <<>>, adv |-> TRUE, pre |-> rt, pre_is |-> is,
             ret |-> TRUE, out |-> <<>>, tried |-> 0]

NextLine ==
  \/ \E op \in LineOps, advance_pos \in BOOLEAN : ReadNext(op, advance_pos)
  \/ \E ops \in LineSchemas : Read(ops)
  \/ ResetPos

LineSpec == InitLine /\ [][NextLine]_vars

\* the schema (bounded uint32, bounded double, skip, bounded int16)
Schema4 == <<"uint32[0,100]", "double[-180,180]", "skip", "int16[-3000,4000]">>

\* the lines of the form <uint32> <double> <token> <int16> whose values are
\* within the bounds of Schema4, with the values of their fields 1, 2 and 4
Rows ==
  { [line |-> "42 -12.5 hello 7", x |-> [neg |-> FALSE, mag |-> <<42>>],
     d |-> [k |-> "fin", neg |-> TRUE, exp |-> 2, digs |-> "125"],
     y |-> [neg |-> FALSE, mag |-> <<7>>]],
    [line |-> "0 180 x -3000", x |-> [neg |-> FALSE, mag |-> <<>>],
     d |-> [k |-> "fin", neg |-> FALSE, exp |-> 3, digs |-> "18"],
     y |-> [neg |-> TRUE, mag |-> <<3000>>]],
    [line |-> "100\t-180.0 7a 4000", x |-> [neg |-> FALSE, mag |-> <<100>>],
     d |-> [k |-> "fin", neg |-> TRUE, exp |-> 3, digs |-> "18"],
     y |-> [neg |-> FALSE, mag |-> <<4000>>]] }

\* the call just made is read(ops) on a parser at the start of its line
ReadFromStart(ops) ==
  /\ last.op = "read"
  /\ last.arg = ops
  /\ last.pre.pos = 0
  /\ last.pre.col = 0
  /\ last.pre.last_error = "T_OK"

\* C18: in whitespace mode a line <uint32> <double> <token> <int16> whose values
\* are within the bounds, read with (bounded uint32, bounded double, skip, bounded
\* int16), succeeds and assigns the three numeric outputs the values of fields 1,
\* 2 and 4; "42 -12.5 hello 7" with [0,100], [-180,180], [-3000,4000] gives
\* (42, -12.5, 7).
C18_FourFieldLine ==
  \A row \in Rows :
    (ReadFromStart(Schema4) /\ last.pre.delim = NUL /\ last.pre.buf = row.line)
      => /\ last.ret
         /\ ~ub
         /\ last.tried = 4
         /\ last.out = <<<<row.x>>, <<row.d>>, <<>>, <<row.y>>>>
         /\ rt.last_error = "T_OK"

C18_HelloLineRead ==
  /\ ReadFromStart(Schema4)
  /\ last.pre.delim = NUL
  /\ last.pre.buf = "42 -12.5 hello 7"
  /\ last.ret
  /\ last.out[1] = <<Pos("42")>>
  /\ last.out[4] = <<Pos("7")>>

\* C19: an int32 read with the default bounds of a well-formed, properly
\* terminated decimal integer outside the signed 32-bit range fails with
\* T_OVERFLOW, with a long of 32 bits (strtol signals ERANGE) and with a long of
\* 64 bits (the comparison against the bounds finds it); read(int32, double) on
\* "  100000000000 3.0" fails with T_OVERFLOW at its first operation and leaves
\* the double unassigned.
C19_Int32OutOfRange ==
  /\ (/\ Scanned({"int32"})
      /\ FieldText(last.pre) \in {"2147483648", "-2147483649", "100000000000",
                                  "99999999999999999999"}
      /\ TerminatedAt(last.pre, FieldStop(last.pre, FieldStart(last.pre))))
       => (~last.ret /\ rt.last_error = "T_OVERFLOW")
  /\ (ReadFromStart(<<"int32", "double">>) /\ last.pre.buf = "  100000000000 3.0")
       => /\ ~last.ret
          /\ ~ub
          /\ rt.last_error = "T_OVERFLOW"
          /\ last.tried = 1
          /\ last.out[2] = <<>>

\* the value fits a 64-bit long: the bounds comparison refuses it
C19_RefusedByBounds ==
  /\ ReadFromStart(<<"int32", "double">>)
  /\ last.pre.buf = "  100000000000 3.0"
  /\ bits = 64
  /\ ~last.ret
  /\ rt.last_error = "T_OVERFLOW"
  /\ last.out = <<<<INT32_MAX>>, <<>>>>

\* the texts of the lines that strtod converts without a range error, with
\* their values and whether -180 <= value <= 180
DoubleRows ==
  { [text |-> "nan", val |-> [k |-> "nan", neg |-> FALSE, exp |-> 0, digs |-> ""],
     within |-> FALSE],
    [text |-> "NaN", val |-> [k |-> "nan", neg |-> FALSE, exp |-> 0, digs |-> ""],
     within |-> FALSE],
    [text |-> "inf", val |-> [k |-> "inf", neg |-> FALSE, exp |-> 0, digs |-> ""],
     within |-> FALSE],
    [text |-> "-inf", val |-> [k |-> "inf", neg |-> TRUE, exp |-> 0, digs |-> ""],
     within |-> FALSE],
    [text |-> "-12.5", val |-> [k |-> "fin", neg |-> TRUE, exp |-> 2, digs |-> "125"],
     within |-> TRUE],
    [text |-> "180", val |-> [k |-> "fin", neg |-> FALSE, exp |-> 3, digs |-> "18"],
     within |-> TRUE],
    [text |-> "-180.0", val |-> [k |-> "fin", neg |-> TRUE, exp |-> 3, digs |-> "18"],
     within |-> TRUE],
    [text |-> "180.5", val |-> [k |-> "fin", neg |-> FALSE, exp |-> 3, digs |-> "1805"],
     within |-> FALSE],
    [text |-> "-1e3", val |-> [k |-> "fin", neg |-> TRUE, exp |-> 4, digs |-> "1"],
     within |-> FALSE],
    [text |-> "3.0", val |-> [k |-> "fin", neg |-> FALSE, exp |-> 1, digs |-> "3"],
     within |-> TRUE],
    [text |-> "0", val |-> [k |-> "fin", neg |-> FALSE, exp |-> 0, digs |-> ""],
     within |-> TRUE],
    [text |-> "-3000", val |-> [k |-> "fin", neg |-> TRUE, exp |-> 4, digs |-> "3"],
     within |-> FALSE],
    [text |-> "4000", val |-> [k |-> "fin", neg |-> FALSE, exp |-> 4, digs |-> "4"],
     within |-> FALSE] }

\* C20: of a properly terminated field that strtod converts, the plain double
\* read fails, with T_NAN, exactly when allow_nan_inf is false and the value is a
\* NaN or an infinity (with allow_nan_inf true both are returned as success); the
\* bounded double read fails with T_NAN on a NaN whatever allow_nan_inf is, and
\* otherwise succeeds exactly when min <= value <= max and fails with T_OVERFLOW
\* when not (an infinity outside finite bounds included).
C20_NanAndBounds ==
  \A row \in DoubleRows :
    (/\ Scanned({"double", "double[-180,180]"})
     /\ FieldText(last.pre) = row.text
     /\ TerminatedAt(last.pre, FieldStop(last.pre, FieldStart(last.pre))))
      => /\ last.arg = "double"
              => /\ last.ret <=> (last.pre.allow_nan_inf \/ row.val.k = "fin")
                 /\ last.ret => last.out = <<row.val>>
                 /\ ~last.ret => rt.last_error = "T_NAN"
         /\ last.arg = "double[-180,180]"
              => /\ last.ret <=> row.within
                 /\ last.ret => last.out = <<row.val>>
                 /\ ~last.ret
                      => rt.last_error = IF row.val.k = "nan" THEN "T_NAN" ELSE "T_OVERFLOW"

\* a NaN is refused by the bounded read although allow_nan_inf is true
C20_BoundedNanRefused ==
  /\ Scanned({"double[-180,180]"})
  /\ last.pre.allow_nan_inf
  /\ FieldText(last.pre) = "nan"
  /\ ~last.ret
  /\ rt.last_error = "T_NAN"

\* C21: a signed integer read (16, 32 or 64 bits) of a well-formed, properly
\* terminated field whose value is outside the caller's bounds fails with
\* T_OVERFLOW and sets the output to the nearest bound: min when the value is
\* below min, max when it is above max; and after any signed read that failed
\* with T_OVERFLOW the output has been assigned a value within [min, max].
C21_OutputClampedToBound ==
  /\ (/\ Scanned(SignedOps)
      /\ FieldText(last.pre) \in WellFormed
      /\ TerminatedAt(last.pre, FieldStop(last.pre, FieldStart(last.pre))))
       => \E v \in {ValueOf(FieldText(last.pre))} :
            /\ NumLt(v, Op(last.arg).b[1])
                 => (~last.ret /\ rt.last_error = "T_OVERFLOW"
                     /\ last.out = <<Op(last.arg).b[1]>>)
            /\ NumLt(Op(last.arg).b[2], v)
                 => (~last.ret /\ rt.last_error = "T_OVERFLOW"
                     /\ last.out = <<Op(last.arg).b[2]>>)
  /\ (Scanned(SignedOps) /\ ~last.ret /\ rt.last_error = "T_OVERFLOW")
       => /\ last.out # <<>>
          /\ NumLeq(Op(last.arg).b[1], last.out[1])
          /\ NumLeq(last.out[1], Op(last.arg).b[2])

\* C21, the case that fails: the 16-bit read refuses a value above max and does
\* not assign its output
C21_Int16NotClamped ==
  /\ Scanned({"int16[-3,7]"})
  /\ FieldText(last.pre) = "8"
  /\ ~last.ret
  /\ rt.last_error = "T_OVERFLOW"
  /\ last.out = <<>>

(***************************************************************************)
(* The caller loop of the header comment and of the tests,                 *)
(*   while(r.read_line()) { r.read(...); }                                 *)
(* run to its end on a finite stream that has no read fault. last.op tells *)
(* where the loop is: the test comes first and after every body, the body  *)
(* after every test that returned true. The loop is sequential code: as    *)
(* long as it has not left, the step it is at is taken.                    *)
(***************************************************************************)

\* the texts of the streams the loop reads
LoopFiles ==
  { "", "1 2\n", "300000 2\n7a 1\n", "nan 1\n1\n\n5 5\n", "1 2\n7a",
    "1,,3\n,2\n", "x,1\n7\n1,2 # c\n", "# c\n \n1e999 -4\n" }

\* the argument lists of the read(...) of the loop body
LoopSchemas ==
  { <<"int16", "int32">>, <<"double", "uint32">>, <<"skip", "string", "int32">> }

InitLoop ==
  /\ \E par \in Params, file \in LoopFiles :
       /\ rt = read_table2(par)
       /\ is = [rest |-> file, eof |-> FALSE, fail |-> FALSE, faulty |-> FALSE]
  /\ bits \in LineBits
  /\ ub = FALSE
  /\ last = [op |-> "init", arg |-> <<>>, adv |-> TRUE, pre |-> rt, pre_is |-> is,
             ret |-> TRUE, out |-> <<>>, tried |-> 0]

\* while(r.read_line())
LoopTest ==
  /\ last.op \in {"init", "read"}
  /\ ReadLine(TRUE)

\* { r.read(...); }
LoopBody ==
  /\ last.op = "read_line"
  /\ last.ret
  /\ \E ops \in LoopSchemas : Read(ops)

NextLoop == LoopTest \/ LoopBody

\* a step of the running loop, told by the call that last records: every
\* LoopTest and LoopBody step is one, and one is possible whenever the loop is
\* running (the first disjunct is such a step, the second is all of them)
LoopStep ==
  /\ last.op \in {"init", "read"} \/ (last.op = "read_line" /\ last.ret)
  /\ \/ last' = [last EXCEPT !.op = IF last.op = "read_line" THEN "read" ELSE "read_line"]
     \/ last'.op # last.op

LoopSpec == InitLoop /\ [][NextLoop]_vars /\ WF_last(LoopStep)

\* C22: on a finite stream with no read fault the loop
\* while(r.read_line()) { r.read(...); } comes to its end, read_line returning
\* false with last_error == T_EOF, whatever parse failures the reads of the
\* lines left; and a read_line called after a parse failure is not refused by
\* the failure: it goes to the stream for the next line.
C22_LoopEndsAtEof ==
  /\ <>(last.op = "read_line" /\ ~last.ret /\ rt.last_error = "T_EOF")
  /\ [](/\ (last.op = "read_line" /\ ~last.ret) => rt.last_error = "T_EOF"
        /\ (last.op = "read_line" /\ last.pre.last_error \in {"T_EOL", "T_MISSING", "T_FORMAT", "T_OVERFLOW", "T_NAN"})
             => (last.tried >= 1 \/ last.pre_is.eof)
        /\ (last.op = "read_line" /\ last.pre.last_error \in {"T_EOL", "T_MISSING", "T_FORMAT", "T_OVERFLOW", "T_NAN"}
            /\ FindNewline(last.pre_is.rest, 0) < Len(last.pre_is.rest)
            /\ ~NoData(last.pre, SubSeq(last.pre_is.rest, 1, FindNewline(last.pre_is.rest, 0))))
             => last.ret)

\* the loop ends at the end of the stream although the read of the last line
\* failed
C22_EndAfterParseFailure ==
  /\ last.op = "read_line"
  /\ ~last.ret
  /\ rt.last_error = "T_EOF"
  /\ last.pre.last_error \in {"T_EOL", "T_MISSING", "T_FORMAT", "T_OVERFLOW", "T_NAN"}
  /\ last.pre.line >= 2

\* C23: a non-advancing read reports what the advancing read of the same type
\* issued right after it reports, the same return value and the same output,
\* and the two calls together return what the advancing read alone returns from
\* the state before the peek, and leave the same instance.
C23_PeekThenReadIsRead ==
  (/\ last.op = "read_next"
   /\ ~last.adv
   /\ last.arg # "skip"
   /\ ~ub)
    => \E after \in {read_next(rt, Op(last.arg), TRUE, bits)},
          alone \in {read_next(last.pre, Op(last.arg), TRUE, bits)} :
         /\ after.ret = last.ret
         /\ after.out = last.out
         /\ after.ret = alone.ret
         /\ after.out = alone.out
         /\ after.ub = alone.ub
         /\ after.p = alone.p

\* C23, a case that fails: in delimiter mode the peek of the last field as a
\* string succeeds and leaves T_EOL, and the advancing string read after it
\* fails, which alone would have succeeded
C23_PeekSpoilsRead ==
  /\ last.op = "read_next"
  /\ ~last.adv
  /\ last.arg = "string"
  /\ last.ret
  /\ last.pre.last_error = "T_OK"
  /\ rt.last_error = "T_EOL"
  /\ ~read_next(rt, String, TRUE, bits).ret
  /\ read_next(last.pre, String, TRUE, bits).ret

(***************************************************************************)
(* A line_parser built on one line of text in each separation mode, with   *)
(* and without a comment character, read field by field, and as a whole by *)
(* string reads repeated until one fails.                                  *)
(***************************************************************************)

\* whitespace mode, and the delimiter ',' with and without a comment character
TokenParams ==
  {Whitespace, Commented, Delimited, [line_parser_params EXCEPT !.delim = ","]}

\* the texts of the lines
TokenLines ==
  { "", ",", "a,,b,", "x y,z", "1,2 # a,b", "7 a,-4 # c", " a\tb  c ", "ab#c d", "-3,7" }

\* the read operations issued on them, by name
TokenOps == {"string", "skip", "int32", "int64[-3,7]", "double", "double[-180,180]"}

\* string reads repeated until one fails: the tokens they returned, in order,
\* and the instance the failed read leaves
RECURSIVE read_strings(_, _)
read_strings(p, b) ==
  LET Rest(r, rest) == [rest EXCEPT !.out = r.out \o rest.out]
      First(r) ==
        IF r.ub \/ ~r.ret THEN [p |-> r.p, ret |-> FALSE, out |-> <<>>, ub |-> r.ub]
        ELSE Rest(r, read_strings(r.p, b))
  IN  First(read_next(p, String, TRUE, b))

InitToken ==
  /\ \E par \in TokenParams, text \in TokenLines : rt = line_parser(par, text)
  /\ is = NoStream
  /\ bits = 64
  /\ ub = FALSE
  /\ last = [op |-> "init", arg |-> <<>>, adv |-> TRUE, pre |-> rt, pre_is |-> is,
             ret |-> TRUE, out |-> <<>>, tried |-> 0]

\* while(p.read_next(str)) tokens.push_back(str);
ReadStrings ==
  /\ ~ub
  /\ \E r \in {read_strings(rt, bits)} :
       /\ rt' = r.p
       /\ ub' = r.ub
       /\ last' = Call("read_strings", <<>>, TRUE, r.ret, r.out, Len(r.out) + 1)
  /\ UNCHANGED <<is, bits>>

NextToken ==
  \/ \E op \in TokenOps, advance_pos \in BOOLEAN : ReadNext(op, advance_pos)
  \/ ReadStrings
  \/ ResetPos

TokenSpec == InitToken /\ [][NextToken]_vars

\* the characters that end a field read as a string in delimiter mode
EndsField(p, c) == c = p.delim \/ c = "\n" \/ (p.comment # NUL /\ c = p.comment)

\* t is the text of buf from position i up to the first character that ends a
\* field, or to the end of buf
IsFieldAt(p, i, t) ==
  /\ i + Len(t) <= Len(p.buf)
  /\ t = SubSeq(p.buf, i + 1, i + Len(t))
  /\ \A k \in 1..Len(t) : ~EndsField(p, SubSeq(t, k, k))
  /\ i + Len(t) = Len(p.buf) \/ EndsField(p, At(p.buf, i + Len(t)))

\* C24: in delimiter mode an advancing string read of the last field of the
\* line, the token that no delimiter follows, returns true with that token, and
\* the read issued next on the line, typed, bounded, string or read_skip,
\* advancing or not, returns false with last_error == T_EOL.
C24_NextReadAfterLastField ==
  (/\ last.op = "read_next"
   /\ last.arg = "string"
   /\ last.adv
   /\ last.pre.delim # NUL
   /\ last.pre.last_error = "T_OK"
   /\ last.pre.pos <= Len(last.pre.buf)
   /\ At(last.pre.buf, DelimFieldEnd(last.pre, last.pre.pos)) # last.pre.delim)
    => /\ last.ret
       /\ Len(last.out) = 1
       /\ IsFieldAt(last.pre, last.pre.pos, last.out[1])
       /\ \A op \in TokenOps, advance_pos \in BOOLEAN :
            \E r \in {read_next(rt, Op(op), advance_pos, bits)} :
              ~r.ub /\ ~r.ret /\ r.p.last_error = "T_EOL"

\* C24, the case that fails: the last field ends at a comment that holds a
\* delimiter, and the read_skip after the string read of the field succeeds
C24_SkipFindsFieldInComment ==
  /\ last.op = "read_next"
  /\ last.arg = "string"
  /\ last.adv
  /\ last.pre.buf = "1,2 # a,b"
  /\ last.ret
  /\ last.out = <<"2 ">>
  /\ rt.last_error = "T_EOL"
  /\ read_next(rt, Skip, TRUE, bits).ret

\* C25: in both separation modes, called with a last_error that is not one of
\* the terminal ones, read_skip returns true exactly when the advancing string
\* read from the same state returns true, the two leave the same position, and
\* read_skip fails with T_EOL only when no field remains.
C25_SkipReadsAsString ==
  (/\ last.op = "read_next"
   /\ last.arg = "skip"
   /\ last.pre.last_error \notin Sticky
   /\ ~ub)
    => \E s \in {read_string(last.pre, TRUE)} :
         /\ ~s.ub
         /\ last.ret = s.ret
         /\ rt.pos = s.p.pos
         \* no field was left to read: whitespace mode has the end of the line after
         \* the blanks, delimiter mode has read the last field
         /\ (~last.ret /\ rt.last_error = "T_EOL")
              => ~(IF last.pre.delim = NUL
                   THEN ~AtLineEnd(last.pre, SkipBlanks(last.pre.buf, last.pre.pos))
                   ELSE last.pre.last_error # "T_EOL" /\ last.pre.pos <= Len(last.pre.buf))

\* C25, the case that fails: in delimiter mode read_skip refuses the last field
\* of the line, which the string read returns
C25_SkipRefusesLastField ==
  /\ last.op = "read_next"
  /\ last.arg = "skip"
  /\ last.pre.buf = "-3,7"
  /\ last.pre.pos = 3
  /\ last.pre.last_error = "T_OK"
  /\ ~last.ret
  /\ rt.last_error = "T_EOL"
  /\ read_string(last.pre, TRUE).ret
  /\ read_string(last.pre, TRUE).out = <<"7">>

\* C26: with a comment character configured, a read of any kind (typed,
\* bounded, string, read_skip; advancing or not; either separation mode) issued
\* when the blanks at the cursor are followed by the comment character returns
\* false with last_error == T_EOL, and leaves the position at or before the
\* comment character.
C26_CommentEndsLine ==
  (/\ last.op = "read_next"
   /\ last.pre.comment # NUL
   /\ last.pre.last_error \notin Sticky
   /\ NextChar(last.pre) = last.pre.comment
   /\ ~ub)
    => /\ ~last.ret
       /\ rt.last_error = "T_EOL"
       /\ rt.pos <= FieldStart(last.pre)

\* C26, a case that fails: in delimiter mode the string read issued at the
\* comment character returns true, with an empty token
C26_EmptyTokenAtComment ==
  /\ last.op = "read_next"
  /\ last.arg = "string"
  /\ last.adv
  /\ last.pre.buf = "7 a,-4 # c"
  /\ last.pre.delim = ","
  /\ last.pre.comment = "#"
  /\ last.pre.pos = 7
  /\ last.pre.last_error = "T_OK"
  /\ last.ret
  /\ last.out = <<"">>

\* the position of the first d in text at or after i, Len(text) if there is none
RECURSIVE IndexOf(_, _, _)
IndexOf(text, d, i) ==
  IF i < Len(text) /\ At(text, i) # d THEN IndexOf(text, d, i + 1) ELSE i

\* text split at every d
RECURSIVE Split(_, _)
Split(text, d) ==
  IF IndexOf(text, d, 0) = Len(text) THEN <<text>>
  ELSE <<SubSeq(text, 1, IndexOf(text, d, 0))>>
         \o Split(SubSeq(text, IndexOf(text, d, 0) + 2, Len(text)), d)

\* the tokens joined with d
RECURSIVE Join(_, _)
Join(tokens, d) ==
  IF Len(tokens) = 0 THEN ""
  ELSE IF Len(tokens) = 1 THEN tokens[1]
  ELSE tokens[1] \o d \o Join(Tail(tokens), d)

\* the characters that cannot be part of a token in whitespace mode
EndsToken(p, c) == c \in {" ", "\t", "\n"} \/ (p.comment # NUL /\ c = p.comment)

\* C27: in delimiter mode with no comment character, string reads repeated from
\* position 0 until one fails return exactly the line split at every delimiter,
\* empty fields included, so that the tokens joined with the delimiter are the
\* line; in whitespace mode a string read that returns true returns a token that
\* is not empty, holds no space, tab, newline or comment character, starts at
\* the first non-blank character at the cursor and runs up to the next such
\* character or the end of the line.
C27_TokensAreTheSplit ==
  /\ (/\ last.op = "read_strings"
      /\ last.pre.delim # NUL
      /\ last.pre.comment = NUL
      /\ last.pre.pos = 0
      /\ last.pre.last_error = "T_OK")
       => /\ last.out = Split(last.pre.buf, last.pre.delim)
          /\ Join(last.out, last.pre.delim) = last.pre.buf
  /\ (/\ last.op = "read_next"
      /\ last.arg = "string"
      /\ last.pre.delim = NUL
      /\ last.ret)
       => /\ Len(last.out) = 1
          /\ \E t \in {last.out[1]}, b \in {FieldStart(last.pre)} :
               /\ t # ""
               /\ \A k \in 1..Len(t) : ~EndsToken(last.pre, SubSeq(t, k, k))
               /\ b + Len(t) <= Len(last.pre.buf)
               /\ t = SubSeq(last.pre.buf, b + 1, b + Len(t))
               /\ \/ b + Len(t) = Len(last.pre.buf)
                  \/ EndsToken(last.pre, At(last.pre.buf, b + Len(t)))

\* a line with empty fields read whole, the empty field after its last
\* delimiter included
C27_EmptyFieldsKept ==
  /\ last.op = "read_strings"
  /\ last.pre.buf = "a,,b,"
  /\ last.pre.delim = ","
  /\ last.pre.comment = NUL
  /\ last.pre.pos = 0
  /\ last.pre.last_error = "T_OK"
  /\ last.out = <<"a", "", "b", "">>
  /\ rt.last_error = "T_EOL"

\* the position where the line of s that holds position i starts
RECURSIVE LineStart(_, _)
LineStart(s, i) ==
  IF i = 0 \/ At(s, i - 1) = "\n" THEN i ELSE LineStart(s, i - 1)

\* what the call recorded in last took from the stream
Consumed == SubSeq(last.pre_is.rest, 1, Len(last.pre_is.rest) - Len(is.rest))

\* the last of the lines taken from the stream, without its newline and
\* without the carriage return in front of it
FetchedLine ==
  StripLineEnding(SubSeq(Consumed, LineStart(Consumed, Len(Consumed) - 1) + 1,
                         Len(Consumed) - 1))

\* C28: a read_line that returns true has taken whole lines from the stream and
\* made the last of them the line of the instance: col == 0, last_error == T_OK
\* whatever error of a read was set before, pos is within the leading blanks of
\* the new line, and the reads that follow return what they return from the
\* start of the new line alone, nothing of the line before.
C28_ReadLineStartsAfresh ==
  (last.op = "read_line" /\ last.ret)
    => /\ Len(Consumed) >= 1
       /\ At(Consumed, Len(Consumed) - 1) = "\n"
       /\ last.pre_is.rest = Consumed \o is.rest
       /\ rt.buf = FetchedLine
       /\ rt.col = 0
       /\ rt.last_error = "T_OK"
       /\ rt.pos <= SkipBlanks(rt.buf, 0)
       /\ \A op \in {"string", "skip", "int32", "double"}, advance_pos \in BOOLEAN :
            \E r \in {read_next(rt, Op(op), advance_pos, bits)},
               fresh \in {read_next(set_line(last.pre, FetchedLine), Op(op), advance_pos, bits)} :
              /\ r.ret = fresh.ret
              /\ r.out = fresh.out
              /\ r.p.last_error = fresh.p.last_error
              /\ r.p.col = fresh.p.col

\* a line is fetched after a read that failed on the line before and left
\* fields of it unread
C28_RemainderDiscarded ==
  /\ last.op = "read_line"
  /\ last.ret
  /\ last.pre.last_error = "T_FORMAT"
  /\ last.pre.pos < Len(last.pre.buf)
  /\ last.pre.col = 0
  /\ rt.buf # last.pre.buf
  /\ rt.last_error = "T_OK"

C30_CursorNeverGoesBack ==
  (/\ last.op \in {"read_next", "read"}
   /\ (last.adv \/ last.arg = "skip")
   /\ ~ub)
    => /\ rt.pos >= last.pre.pos
       /\ rt.col >= last.pre.col

\* an advancing read that fails after it has moved the cursor forward
C30_FailedReadMovedOn ==
  /\ last.op = "read_next"
  /\ last.arg = "int32"
  /\ last.adv
  /\ ~last.ret
  /\ rt.last_error = "T_FORMAT"
  /\ rt.pos > last.pre.pos
  /\ rt.col = last.pre.col

(***************************************************************************)
(* A line_parser built on one line of text, in whitespace mode and with    *)
(* the delimiters ',', tab and space, its fields read one at a time.       *)
(***************************************************************************)

\* whitespace mode, and the delimiters ',', tab and space
FieldParams ==
  {Whitespace, Commented, Delimited,
   [line_parser_params EXCEPT !.delim = "\t"], [line_parser_params EXCEPT !.delim = " "]}

\* the texts of the lines
FieldLines ==
  { "", "abc 1", "123abc 1", "123 5", "8", ",5", "7,8", "-5,7", "1\t2", "1 2",
    "99999999999999999999abc", "99999999999999999999 1", "200 1", "nan 1", "0.5,3" }

\* the read operations issued on them, by name
FieldOps ==
  {"int32", "int32[0,10]", "int32[1,7]", "int16[-3,7]", "int64[-3,7]", "uint32[1,7]",
   "uint64[1,7]", "double", "double[-180,180]"}

InitField ==
  /\ \E par \in FieldParams, text \in FieldLines : rt = line_parser(par, text)
  /\ is = NoStream
  /\ bits \in LineBits
  /\ ub = FALSE
  /\ last = [op |-> "init", arg |-> <<>>, adv |-> TRUE, pre |-> rt, pre_is |-> is,
             ret |-> TRUE, out |-> <<>>, tried |-> 0]

NextField ==
  \/ \E op \in FieldOps, advance_pos \in BOOLEAN : ReadNext(op, advance_pos)
  \/ ResetPos

FieldSpec == InitField /\ [][NextField]_vars

\* the decimal integers of the lines that every integer type holds, and their
\* values
FieldValue ==
  [t \in {"123", "5", "8", "7", "-5", "1", "2", "200", "0", "3"} |->
    CASE t = "123" -> [neg |-> FALSE, mag |-> <<123>>]
      [] t = "5" -> [neg |-> FALSE, mag |-> <<5>>]
      [] t = "8" -> [neg |-> FALSE, mag |-> <<8>>]
      [] t = "7" -> [neg |-> FALSE, mag |-> <<7>>]
      [] t = "-5" -> [neg |-> TRUE, mag |-> <<5>>]
      [] t = "1" -> [neg |-> FALSE, mag |-> <<1>>]
      [] t = "2" -> [neg |-> FALSE, mag |-> <<2>>]
      [] t = "200" -> [neg |-> FALSE, mag |-> <<200>>]
      [] t = "0" -> [neg |-> FALSE, mag |-> <<>>]
      [] t = "3" -> [neg |-> FALSE, mag |-> <<3>>]]

\* the text of the number at the cursor of p: its sign and its digits
NumberText(p) == SubSeq(p.buf, FieldStart(p) + 1, NumberEnd(p))

\* C31: the errors of a bounded integer read of one field have a fixed order
\* (the delimiter, if any, not being a blank, and the '-' in front of an unsigned
\* field apart): T_EOL when the line ends at the field, T_MISSING when the field
\* is empty, before anything else; then T_FORMAT when no digit converts; then
\* T_OVERFLOW when the number overflows the conversion; then T_FORMAT when what
\* follows the number does not end the field; and only then are min and max
\* compared: the read succeeds exactly when min <= value <= max and fails with
\* T_OVERFLOW when not.
C31_ErrorPrecedence ==
  (/\ Scanned(FieldOps \ {"double", "double[-180,180]"})
   /\ ~IsBlank(last.pre.delim)
   /\ last.arg \in {"uint32[1,7]", "uint64[1,7]"} => NextChar(last.pre) # "-")
    => \E p \in {last.pre} :
         IF AtLineEnd(p, FieldStart(p))
         THEN ~last.ret /\ rt.last_error = "T_EOL"
         ELSE IF p.delim # NUL /\ NextChar(p) = p.delim
         THEN ~last.ret /\ rt.last_error = "T_MISSING"
         ELSE IF NumberEnd(p) = DigitsFrom(p)
         THEN ~last.ret /\ rt.last_error = "T_FORMAT"
         ELSE IF NumberEnd(p) - DigitsFrom(p) > 19
         THEN ~last.ret /\ rt.last_error = "T_OVERFLOW"
         ELSE IF ~TerminatedAt(p, NumberEnd(p))
         THEN ~last.ret /\ rt.last_error = "T_FORMAT"
         ELSE /\ NumberText(p) \in DOMAIN FieldValue
              /\ \E v \in {FieldValue[NumberText(p)]} :
                   /\ last.ret <=> (NumLeq(Op(last.arg).b[1], v) /\ NumLeq(v, Op(last.arg).b[2]))
                   /\ ~last.ret => rt.last_error = "T_OVERFLOW"

\* "123abc" read within [0,10]: the format error, not the bounds
C31_JunkBeforeBounds ==
  /\ Scanned({"int32[0,10]"})
  /\ last.pre.buf = "123abc 1"
  /\ last.pre.pos = 0
  /\ ~last.ret
  /\ rt.last_error = "T_FORMAT"


\* the lines of a text taken from the stream: the pieces between its newlines,
\* and what follows the last newline if anything does
TextLines(s) ==
  IF s = "" THEN <<>>
  ELSE IF At(s, Len(s) - 1) = "\n" THEN Split(SubSeq(s, 1, Len(s) - 1), "\n")
  ELSE Split(s, "\n")

\* C32: no line of the stream is lost. A read_line that returns true has made
\* the last line it took from the stream current, and a read_line that ends the
\* input with T_EOF has made none current; the lines a call took and did not
\* make current (lost) are none with skip disabled, the final line without a newline
\* included, and with skip enabled they are lines with no data.
C32_EveryLineDelivered ==
  (/\ last.op = "read_line"
   /\ ~ub
   /\ last.ret \/ rt.last_error = "T_EOF")
    => \E lost \in {IF last.ret
                     THEN SubSeq(TextLines(Consumed), 1, Len(TextLines(Consumed)) - 1)
                     ELSE TextLines(Consumed)} :
         /\ last.pre_is.rest = Consumed \o is.rest
         /\ last.ret => rt.buf = StripLineEnding(TextLines(Consumed)[Len(TextLines(Consumed))])
         /\ ~last.arg => lost = <<>>
         /\ \A i \in 1..Len(lost) : NoData(last.pre, lost[i])

\* the final line "8" of a stream, with no newline after it, is taken by a
\* read_line that returns false with T_EOF: no call makes it current
C32_LastLineLost ==
  /\ last.op = "read_line"
  /\ last.arg = FALSE
  /\ ~last.ret
  /\ rt.last_error = "T_EOF"
  /\ last.pre.last_error \notin Sticky
  /\ last.pre_is.rest = "8"
  /\ is.rest = ""
  /\ is.eof
  /\ last.tried = 1


\* the field at the cursor of p is a decimal integer right at pos, the
\* delimiter comes right after it, and a further field right after the delimiter
DelimitedNumber(p) ==
  /\ p.delim # NUL
  /\ p.pos < Len(p.buf)
  /\ At(p.buf, p.pos) \in {"0", "1", "2", "3", "4", "5", "6", "7", "8", "9", "-"}
  /\ NumberEnd(p) > DigitsFrom(p)
  /\ NumberText(p) \in DOMAIN FieldValue
  /\ NumberEnd(p) + 1 < Len(p.buf)
  /\ At(p.buf, NumberEnd(p)) = p.delim
  /\ At(p.buf, NumberEnd(p) + 1) \in {"0", "1", "2", "3", "4", "5", "6", "7", "8", "9", "-"}

\* C33: in delimiter mode, whatever the delimiter is (',', tab, space), an
\* advancing int32 read of a decimal integer that is followed at once by the
\* delimiter and a further field returns true with the value of the integer,
\* last_error == T_OK, col one more, and pos right after that one delimiter.
C33_AnyDelimiterSeparates ==
  (/\ Scanned({"int32"})
   /\ last.adv
   /\ DelimitedNumber(last.pre))
    => /\ last.ret
       /\ last.out = <<FieldValue[NumberText(last.pre)]>>
       /\ rt.last_error = "T_OK"
       /\ rt.col = last.pre.col + 1
       /\ rt.pos = NumberEnd(last.pre) + 1

\* delim = '\t' and the line "1\t2": the read of the first integer fails with
\* T_FORMAT, the tab being skipped as a blank before the delimiter is looked for
C33_TabNotFound ==
  /\ Scanned({"int32"})
  /\ last.adv
  /\ last.pre.delim = "\t"
  /\ last.pre.buf = "1\t2"
  /\ last.pre.pos = 0
  /\ ~last.ret
  /\ rt.last_error = "T_FORMAT"
  /\ rt.pos = 2
  /\ rt.col = 0


\* C34: the instance a move constructor or a move assignment builds has the
\* line, pos, col, last_error, delimiter, comment character, base and NaN flag
\* the source had before the move, and an advancing read of it returns what
\* the same read of the source would have returned.
C34_MoveTransfersAll ==
  (last.op \in {"move_construct", "move_assign"})
    => \E dst \in {last.out[1]}, src \in {last.pre} :
         /\ dst.buf = src.buf
         /\ dst.pos = src.pos
         /\ dst.col = src.col
         /\ dst.last_error = src.last_error
         /\ dst.delim = src.delim
         /\ dst.comment = src.comment
         /\ dst.base = src.base
         /\ dst.allow_nan_inf = src.allow_nan_inf
         /\ \A op \in {"int32", "string"} :
              \E a \in {read_next(dst, Op(op), TRUE, bits)},
                 b \in {read_next(src, Op(op), TRUE, bits)} :
                a.ret = b.ret /\ a.out = b.out /\ a.p.pos = b.p.pos

\* the line "1,,3" of a source with the delimiter ',' moved into an instance
\* that was built for whitespace mode: the destination keeps its own delimiter
\* and the int32 read of the first field, true in the source, fails in it
C34_DelimiterLeftBehind ==
  /\ last.op = "move_assign"
  /\ last.pre.delim = ","
  /\ last.pre.buf = "1,,3"
  /\ last.pre.pos = 0
  /\ last.pre.last_error = "T_OK"
  /\ last.out[1].delim = NUL
  /\ last.out[1].buf = "1,,3"
  /\ read_next(last.pre, Op("int32"), TRUE, bits).ret
  /\ ~read_next(last.out[1], Op("int32"), TRUE, bits).ret


C36_FailedReadKeepsField ==
  (/\ Scanned(FieldOps)
   /\ last.adv
   /\ ~last.ret
   /\ \/ rt.last_error \in {"T_OVERFLOW", "T_NAN"}
      \/ /\ rt.last_error = "T_FORMAT"
         /\ last.arg \notin {"double", "double[-180,180]"}
         /\ NumberEnd(last.pre) = DigitsFrom(last.pre))
    => rt.pos = FieldStart(last.pre)

\* "8" read within [1,7]: the read fails on the bounds with pos after the field
C36_BoundsFailureConsumes ==
  /\ Scanned({"int32[1,7]"})
  /\ last.adv
  /\ last.pre.buf = "8"
  /\ last.pre.pos = 0
  /\ ~last.ret
  /\ rt.last_error = "T_OVERFLOW"
  /\ FieldStart(last.pre) = 0
  /\ rt.pos = 1


\* C37: reset_pos called with last_error other than T_EOF, T_COPIED,
\* T_ERROR_FOPEN and T_READ_ERROR sets pos = 0, col = 0 and last_error = T_OK
\* and changes nothing else, and every read(...) issued after it returns what
\* it returned on the first pass over the line: the same return value, outputs,
\* error, column and position. Called with one of the four errors it changes
\* nothing.
C37_ResetReplays ==
  (last.op = "reset_pos")
    => IF last.pre.last_error \in Sticky
       THEN rt = last.pre
       ELSE /\ rt = [last.pre EXCEPT !.pos = 0, !.col = 0, !.last_error = "T_OK"]
            /\ \A ops \in Schemas :
                 \E again \in {read(rt, OpsOf(ops), bits)},
                    first \in {read([rt EXCEPT !.pos = IF rt.delim # NUL THEN 0
                                                        ELSE SkipBlanks(rt.buf, 0)],
                                   OpsOf(ops), bits)} :
                   /\ again.ret = first.ret
                   /\ again.out = first.out
                   /\ again.tried = first.tried
                   /\ again.ub = first.ub
                   /\ again.p.last_error = first.p.last_error
                   /\ again.p.col = first.p.col
                   /\ again.p.pos = first.p.pos

\* the line rewound after its reads ran into the end of it: the two int32
\* reads succeed again
C37_RewoundAfterEol ==
  /\ last.op = "reset_pos"
  /\ last.pre.last_error = "T_EOL"
  /\ last.pre.pos > 0
  /\ last.pre.col > 0
  /\ rt.pos = 0
  /\ rt.col = 0
  /\ rt.last_error = "T_OK"
  /\ read(rt, OpsOf(<<"int32", "int32">>), bits).ret


\* C38: line is 0 before the first read_line, a read_line adds one for every
\* line it fetched from the stream when it returns true (the blank and comment
\* lines it skipped included) and leaves line alone when it returns false, and
\* no read of a field, set_line or reset_pos changes line.
C38_LineIsIndexOfCurrent ==
  /\ last.op = "init" => rt.line = 0
  /\ (last.op \in {"read_next", "read", "reset_pos", "set_line"} /\ ~ub)
       => rt.line = last.pre.line
  /\ (last.op = "read_line" /\ last.ret)
       => rt.line = last.pre.line + Len(TextLines(Consumed))
  /\ (last.op = "read_line" /\ ~last.ret /\ ~ub) => rt.line = last.pre.line

\* a read_line with skip enabled that passes the blank and comment lines at
\* the end of the stream and returns false with T_EOF has counted them
C38_FailedCallCounted ==
  /\ last.op = "read_line"
  /\ last.arg = TRUE
  /\ ~last.ret
  /\ rt.last_error = "T_EOF"
  /\ last.pre_is.rest = "\n# c\n"
  /\ last.tried = 3
  /\ last.pre.line = 1
  /\ rt.line = 3

=============================================================================
